---- MODULE Spec2Model ----
(***************************************************************************)
(* Runtime enforcer and audit log of the policy-governance engine:         *)
(*   Enforcement/scoring.py       weighted score and action table          *)
(*   Enforcement/orchestrator.py  _run_postgen and the enforce retry loop  *)
(*   Enforcement/postgen/*.py     outcomes of the four verifiers           *)
(*   Enforcement/audit.py         hash-chained JSONL audit log             *)
(*                                                                         *)
(* Scores are floats in [0,1] in the program.  Sub-scores are modelled in  *)
(* thousandths (1.0 = 1000) and weights in hundredths, so the weighted     *)
(* score S is an integer in units of 1e-5 (1.0 = 100000).                  *)
(***************************************************************************)
EXTENDS Integers, Sequences, FiniteSets, TLC

\* ------------------------------------------------------------------ bounds
\* largest auto_correct_max_attempts / max_retries a configuration may carry
MaxAutoCorrect == 1
MaxRetries == 2
\* largest number of decision nodes required by the applicable paths
MaxNodes == 1
\* most lines the audit log file gets, and most AuditLogger objects made on it
MaxLog == 3
MaxLoggers == 2
\* threads calling log() on one shared AuditLogger
NumThreads == 2
\* determine_action is called on the scores k / ScoreGrid, k in 0..ScoreGrid,
\* and on the values next to each threshold
ScoreGrid == 40
\* most policies handed to one compile_from_policies call
MaxPolicies == 2
\* rules of a bundle handed to build_context, and most dominance rules in it
MaxRules == 3
MaxDominanceRules == 1
\* build_context calls made on the same arguments
MaxRuns == 2

\* ------------------------------------------------------- scoring.py values
W_SMT == 60
W_JUDGE == 30
W_COVERAGE == 10
THRESHOLD_PASS == 95000
THRESHOLD_AUTO_CORRECT == 85000
THRESHOLD_REGENERATE == 70000

PASS == "PASS"
AUTO_CORRECT == "AUTO_CORRECT"
REGENERATE == "REGENERATE"
ESCALATE == "ESCALATE"
ComplianceAction == {PASS, AUTO_CORRECT, REGENERATE, ESCALATE}

\* a sub-score of 1.0, and the literal score=1.0 of the short-circuit decision
One == 10 * 100
ScoreOne == 100 * One

\* None of Python where a str is optional (_prev_hash, prev_hash of a record)
None == <<"None">>
\* an Optional[...] field is a sequence of length 0 (None) or 1
Some(x) == <<x>>

\* resolution.py: the priority lattice (also the bundle's priority_lattice)
PRIORITY_RANK ==
    [p \in {"regulatory", "core_values", "company", "department", "situational"} |->
        CASE p = "regulatory" -> 1
          [] p = "core_values" -> 2
          [] p = "company" -> 3
          [] p = "department" -> 4
          [] p = "situational" -> 5]

\* policy ids of the model in sorted() order
PolicyIds == <<"p1", "p2", "p3", "p4">>
IdRank(p) == CHOOSE i \in 1..Len(PolicyIds) : PolicyIds[i] = p
SortedPair(p1, p2) == IF IdRank(p1) <= IdRank(p2) THEN <<p1, p2>> ELSE <<p2, p1>>

VARIABLES
    cfg,            \* EnforcementConfig plus which optional arguments enforce got
    pc,             \* position of the enforce call
    context,        \* EnforcementContext built by build_context
    response,       \* text of the first generation (0 is "")
    report,         \* PostGenReport behind the current decision, or None
    decision,       \* current ComplianceDecision, or None
    retries,        \* the local counter `retries` of enforce
    fixRetries,     \* FIX-hint generations issued in this call
    doNotRetries,   \* DO-NOT generations issued in this call
    generatorCalls, \* calls of generate_fn / llm_client.invoke_json for generation
    postgenCalls,   \* calls of _run_postgen
    raised,         \* name of the exception source that left enforce, or "none"
    duration_ms,    \* duration_ms of the returned decision's audit_trail (0 before)
    injection,      \* the local `injection` of enforce, or None
    prompt,         \* the local `prompt` of enforce, or None
    sent,           \* the prompt of the latest generator call of the enforce
                    \* call under way, or None
    query,          \* argument query of enforce: the words of its text
    classify_answer,    \* what the LLM answers to the classification prompt
    today,          \* date.today() during the call
    bundle,         \* the loaded CompiledPolicyBundle
    bundle_index,   \* the BundleIndex built on it
    runs,           \* contexts returned by build_context calls on their own
    exit_code,      \* exit status of the enforce command, None while it runs
    log_file,       \* lines of the audit log file
    loggers,        \* _prev_hash of every AuditLogger constructed on the file
    tampered,       \* a stored field of the file was edited behind the loggers
    threads,        \* position and locals of each thread inside AuditLogger.log
    score_arg,      \* argument score of a determine_action call
    report_arg,     \* argument report of a determine_action call
    action_ret,     \* what the determine_action call returned, or None
    policies,       \* Extractor policies handed to compile_from_policies
    z3_unknown,     \* pairs <<i, j>> of paths on which solver.check() answers unknown
    solve_ret,      \* the paths of a solve_paths call and what it returned, or None
    vpc,            \* position of the compile_from_policies call
    policy_ir,      \* result of build_policy_ir, or None
    decision_graph, \* result of build_decision_graph, or None
    conflict_report,    \* result of detect_conflicts, or None
    resolution_report,  \* result of resolve_conflicts, or None
    compiled_bundle     \* result of compile_bundle, or None

enfLocals == <<cfg, pc, context, response, report, decision, retries,
               fixRetries, doNotRetries, generatorCalls, postgenCalls, raised,
               duration_ms, injection, prompt, sent>>
enfArgs == <<query, classify_answer, today, bundle, bundle_index>>
enfVars == <<enfLocals, enfArgs>>
scoreVars == <<score_arg, report_arg, action_ret>>
valVars == <<policies, z3_unknown, solve_ret, vpc, policy_ir, decision_graph, conflict_report,
             resolution_report, compiled_bundle>>
auxVars == <<scoreVars, valVars, runs, exit_code>>
sideVars == <<tampered, threads, auxVars>>
vars == <<cfg, pc, context, response, report, decision, retries,
          fixRetries, doNotRetries, generatorCalls, postgenCalls, raised,
          duration_ms, injection, prompt, sent, query, classify_answer, today, bundle, bundle_index, runs, exit_code,
          log_file, loggers, tampered, threads,
          score_arg, report_arg, action_ret,
          policies, z3_unknown, solve_ret, vpc, policy_ir, decision_graph, conflict_report,
          resolution_report, compiled_bundle>>

\* ---------------------------------------------------------------- scoring
\* S = W_SMT * Z + W_JUDGE * L + W_COVERAGE * C ; regex carries no weight
compute_compliance_score(rep) ==
    W_SMT * rep.smt_result.score
    + W_JUDGE * rep.judge_result.score
    + W_COVERAGE * rep.coverage_result.score

determine_action_ungated(score, rep) ==
    IF score >= THRESHOLD_PASS THEN PASS
    ELSE IF score >= THRESHOLD_AUTO_CORRECT THEN AUTO_CORRECT
    ELSE IF score >= THRESHOLD_REGENERATE THEN REGENERATE
    ELSE ESCALATE

determine_action(score, rep) ==
    IF ~rep.regex_result.passed THEN ESCALATE
    ELSE IF score >= THRESHOLD_PASS THEN PASS
    ELSE IF score >= THRESHOLD_AUTO_CORRECT THEN AUTO_CORRECT
    ELSE IF score >= THRESHOLD_REGENERATE THEN REGENERATE
    ELSE ESCALATE

\* nodes_covered / nodes_required, times 0.8 when some node is missing
compute_coverage(required, covered) ==
    IF required = 0 THEN [score |-> One]
    ELSE IF covered < required
         THEN [score |-> (((covered * One) \div required) * 8) \div 10]
         ELSE [score |-> (covered * One) \div required]

\* violations = regex flags ++ "SMT: ..." per SMT violation ++ "Judge: ..." per issue
build_compliance_decision(rep, llm_response) ==
    LET score == compute_compliance_score(rep)
        action == determine_action(score, rep)
    IN [score |-> score,
        action |-> action,
        violations |-> rep.regex_result.flags
                       \o [i \in 1..Len(rep.smt_result.violations) |->
                              "SMT: " \o rep.smt_result.violations[i]]
                       \o [i \in 1..Len(rep.judge_result.issues) |->
                              "Judge: " \o rep.judge_result.issues[i]],
        llm_response |-> llm_response,
        corrected_response |-> <<>>]

\* ------------------------------------------------------ postgen verifiers
\* run_regex_check: passed iff no pattern matched, score 1.0 / 0.0
run_regex_check(matched) ==
    IF matched THEN [passed |-> FALSE, flags |-> <<"flag">>, score |-> 0]
    ELSE [passed |-> TRUE, flags |-> <<>>, score |-> One]

\* verify_facts_against_rules: constraint breaches, then path coverage
verify_facts_against_rules(hasFacts, breach, hasPaths, pathSatisfied) ==
    IF ~hasFacts THEN [passed |-> TRUE, violations |-> <<>>, score |-> One]
    ELSE LET violations ==
                 (IF breach THEN <<"constraint_breach">> ELSE <<>>)
                 \o (IF hasPaths /\ ~pathSatisfied THEN <<"uncovered_case">> ELSE <<>>)
             passed == Len(violations) = 0
         IN [passed |-> passed,
             violations |-> violations,
             score |-> IF passed THEN One
                       ELSE IF \E i \in 1..Len(violations) : violations[i] = "uncovered_case"
                            THEN One \div 2
                            ELSE 0]

\* run_smt_check: no extracted fact is penalised with 0.8
run_smt_check(hasFacts, breach, hasPaths, pathSatisfied) ==
    IF ~hasFacts THEN [passed |-> TRUE, violations |-> <<>>, score |-> (8 * One) \div 10]
    ELSE verify_facts_against_rules(hasFacts, breach, hasPaths, pathSatisfied)

\* scores the judge LLM may answer (already clamped to [0,1])
JudgeScores == {0, One \div 2, One}

\* a run_judge_check that takes a failed call for full approval
run_judge_check_optimistic(answer) ==
    IF answer.raises
    THEN [score |-> One, issues |-> <<"judge_llm_unavailable">>]
    ELSE [score |-> answer.score, issues |-> answer.issues]

\* run_judge_check: the LLM's score, or 0.5 when the call fails
run_judge_check(answer) ==
    IF answer.raises
    THEN [score |-> One \div 2, issues |-> <<"judge_llm_unavailable">>]
    ELSE [score |-> answer.score, issues |-> answer.issues]

\* answers of the judge LLM: the call fails, or a score with its issues
JudgeAnswers ==
    {[raises |-> TRUE, score |-> 0, issues |-> <<>>]}
    \cup { [raises |-> FALSE, score |-> s,
            issues |-> IF s = One THEN <<>> ELSE <<"issue">>] : s \in JudgeScores }

\* outcomes of the SMT check on one response: it raises, or it ran on the facts
SMTInputs ==
    {[raises |-> TRUE, hasFacts |-> FALSE, breach |-> FALSE, pathSatisfied |-> FALSE]}
    \cup {[raises |-> FALSE, hasFacts |-> FALSE, breach |-> FALSE, pathSatisfied |-> FALSE]}
    \cup {[raises |-> FALSE, hasFacts |-> TRUE, breach |-> b, pathSatisfied |-> s] :
             b \in BOOLEAN, s \in BOOLEAN}

\* what the enabled verifiers meet on one response, for a context ctx, in
\* the order of _run_postgen (regex, SMT, coverage, judge): a verifier that
\* is not reached because an earlier one raised meets nothing
PostgenInputs(ctx, c) ==
    { in \in
        [regex : IF c.regex_enabled THEN {"pass", "match", "raise"} ELSE {"pass"},
         smt : IF c.smt_enabled THEN SMTInputs
               ELSE {[raises |-> FALSE, hasFacts |-> FALSE, breach |-> FALSE,
                      pathSatisfied |-> FALSE]},
         covered : 0..ctx.nodes_required,
         covRaises : IF ctx.nodes_required > 0 THEN BOOLEAN ELSE {FALSE},
         judge : IF c.judge_enabled
                 THEN IF c.judge_down THEN { a \in JudgeAnswers : a.raises }
                      ELSE JudgeAnswers
                 ELSE {[raises |-> FALSE, score |-> One, issues |-> <<>>]}] :
        /\ (c.smt_enabled /\ in.smt.raises) => (in.covered = 0 /\ ~in.covRaises)
        /\ ((c.smt_enabled /\ in.smt.raises) \/ in.covRaises) =>
              (in.covered = 0 /\ in.judge = [raises |-> FALSE, score |-> One, issues |-> <<>>]) }

\* _run_postgen: regex and judge failures are replaced by a fallback result,
\* the SMT check and compute_coverage are called outside any try
run_postgen(in, ctx, c) ==
    LET regex_result ==
            IF c.regex_enabled /\ in.regex # "raise"
            THEN run_regex_check(in.regex = "match")
            ELSE [passed |-> TRUE, flags |-> <<>>, score |-> One]
        smt_result ==
            IF c.smt_enabled
            THEN run_smt_check(in.smt.hasFacts, in.smt.breach,
                               ctx.applicable_paths # {}, in.smt.pathSatisfied)
            ELSE [passed |-> TRUE, violations |-> <<>>, score |-> One]
        judge_result ==
            IF c.judge_enabled THEN run_judge_check(in.judge)
            ELSE [score |-> One, issues |-> <<>>]
    IN IF c.smt_enabled /\ in.smt.raises THEN [raised |-> "smt", report |-> <<>>]
       ELSE IF in.covRaises THEN [raised |-> "coverage", report |-> <<>>]
       ELSE [raised |-> "none",
             report |-> Some([regex_result |-> regex_result,
                              smt_result |-> smt_result,
                              judge_result |-> judge_result,
                              coverage_result |->
                                  compute_coverage(ctx.nodes_required, in.covered)])]

\* ------------------------------------------------------------- audit log
\* ComplianceAction(str, Enum): the value a member is serialised as
ActionValue(a) ==
    CASE a = PASS -> "pass"
      [] a = AUTO_CORRECT -> "auto_correct"
      [] a = REGENERATE -> "regenerate"
      [] a = ESCALATE -> "escalate"

\* JSON values carry their JSON type
JNull == [t |-> "null", v |-> 0]
JStr(x) == [t |-> "str", v |-> x]
JFloat(x) == [t |-> "float", v |-> x]
JInt(x) == [t |-> "int", v |-> x]
JObj(x) == [t |-> "obj", v |-> x]

\* an entry that takes the action from the report instead of the decision
build_audit_entry_from_report(ctx, rep, dec) ==
    [domain |-> Some(ctx.domain),
     postgen_report |-> rep,
     compliance_score |-> dec.score,
     final_action |-> IF rep = <<>> THEN dec.action
                      ELSE determine_action(dec.score, rep[1])]

\* the AuditEntry fields of the model: domain, postgen_report,
\* compliance_score, final_action
build_audit_entry(ctx, rep, dec) ==
    [domain |-> Some(ctx.domain),
     postgen_report |-> rep,
     compliance_score |-> dec.score,
     final_action |-> dec.action]

\* AuditEntry.model_dump_json
model_dump_json(entry) ==
    [domain |-> IF entry.domain = <<>> THEN JNull ELSE JStr(entry.domain[1]),
     postgen_report |-> IF entry.postgen_report = <<>> THEN JNull
                        ELSE JObj(entry.postgen_report[1]),
     compliance_score |-> JFloat(entry.compliance_score),
     final_action |-> JStr(ActionValue(entry.final_action))]

\* hashlib.sha256(prefix + text).hexdigest(), taken as collision-free: the
\* digest is the pair it was computed from
sha256(prefix, text) == <<"sha256", prefix, text>>

\* (prev_hash or "")
OrEmpty(h) == IF h = None THEN <<"">> ELSE h

\* the line AuditLogger.log writes for entry when _prev_hash is prev
LogRecord(prev, entry) ==
    LET entry_json == model_dump_json(entry)
        entry_hash == sha256(OrEmpty(prev), entry_json)
    IN [entry_hash |-> entry_hash,
        prev_hash |-> prev,
        domain |-> entry_json.domain,
        postgen_report |-> entry_json.postgen_report,
        compliance_score |-> entry_json.compliance_score,
        final_action |-> entry_json.final_action]

\* strings pydantic parses as a float, with the float they denote
FloatOfString == [x \in {"1.0", "0.85"} |-> IF x = "1.0" THEN ScoreOne ELSE THRESHOLD_AUTO_CORRECT]

\* AuditEntry.model_validate on the fields left after the two pops (pydantic's
\* default lax mode): a float field takes a float, an int or a numeric string;
\* an enum field takes the value of a member; an optional field takes null
model_validate(rec) ==
    LET domain_ok == rec.domain.t \in {"null", "str"}
        report_ok == rec.postgen_report.t \in {"null", "obj"}
        score_ok == \/ rec.compliance_score.t \in {"float", "int"}
                    \/ /\ rec.compliance_score.t = "str"
                       /\ rec.compliance_score.v \in DOMAIN FloatOfString
        action_ok == /\ rec.final_action.t = "str"
                     /\ \E a \in ComplianceAction : ActionValue(a) = rec.final_action.v
    IN IF ~(domain_ok /\ report_ok /\ score_ok /\ action_ok)
       THEN [ok |-> FALSE]
       ELSE [ok |-> TRUE,
             entry |->
               [domain |-> IF rec.domain.t = "null" THEN <<>> ELSE Some(rec.domain.v),
                postgen_report |-> IF rec.postgen_report.t = "null" THEN <<>>
                                   ELSE Some(rec.postgen_report.v),
                compliance_score |->
                    IF rec.compliance_score.t = "float" THEN rec.compliance_score.v
                    ELSE IF rec.compliance_score.t = "int"
                         THEN rec.compliance_score.v * ScoreOne
                         ELSE FloatOfString[rec.compliance_score.v],
                final_action |->
                    CHOOSE a \in ComplianceAction : ActionValue(a) = rec.final_action.v]]

\* verify_integrity from line i on, prev being the hash of the line before:
\* "True", "False", or "raise" when model_validate rejects a line
RECURSIVE verify_from(_, _, _)
verify_from(lines, i, prev) ==
    IF i > Len(lines) THEN "True"
    ELSE LET record == lines[i]
             stored_hash == record.entry_hash
             stored_prev == record.prev_hash
             validated == model_validate(record)
         IN IF stored_prev # prev THEN "False"
            ELSE IF ~validated.ok THEN "raise"
            ELSE IF sha256(OrEmpty(prev), model_dump_json(validated.entry)) # stored_hash
                 THEN "False"
                 ELSE verify_from(lines, i + 1, stored_hash)

\* a verify_integrity that also wants the last line to be the one the first
\* logger wrote last
verify_integrity_anchored(lines) ==
    IF verify_from(lines, 1, None) # "True" THEN verify_from(lines, 1, None)
    ELSE IF lines = <<>> THEN (IF loggers[1] = None THEN "True" ELSE "False")
    ELSE IF lines[Len(lines)].entry_hash = loggers[1] THEN "True" ELSE "False"

verify_integrity(lines) == verify_from(lines, 1, None)

\* a log() that writes the line but leaves _prev_hash as it was
log_keeps_prev(lg, entry) ==
    LET record == LogRecord(loggers[lg], entry)
    IN /\ log_file' = Append(log_file, record)
       /\ UNCHANGED loggers

\* AuditLogger.log on logger lg: append the line, remember its hash
log(lg, entry) ==
    LET record == LogRecord(loggers[lg], entry)
    IN /\ log_file' = Append(log_file, record)
       /\ loggers' = [loggers EXCEPT ![lg] = record.entry_hash]

\* ------------------------------------------------ bundle_loader, pregen
\* dict.get(k, default); on a defaultdict too it adds no key
DictGet(d, k, default) == IF k \in DOMAIN d THEN d[k] ELSE default

\* BundleIndex.__init__: the lookup maps; a map has a key only for what the
\* bundle holds (lists of distinct rules are kept as sets of policy ids)
BundleIndex(b) ==
    LET rules == b.conditional_rules
        paths == b.compiled_paths
        ri == 1..Len(rules)
        pi == 1..Len(paths)
        last_rule(p) == CHOOSE i \in ri : /\ rules[i].policy_id = p
                                          /\ \A j \in ri : rules[j].policy_id = p => j <= i
        last_path(p) == CHOOSE i \in pi : /\ paths[i].policy_id = p
                                          /\ \A j \in pi : paths[j].policy_id = p => j <= i
    IN [rules_by_domain |->
            [d \in { rules[i].metadata.domain : i \in ri } |->
                { rules[i].policy_id : i \in { j \in ri : rules[j].metadata.domain = d } }],
        rules_by_policy_id |->
            [p \in { rules[i].policy_id : i \in ri } |-> rules[last_rule(p)]],
        paths_by_domain |->
            [d \in { paths[i].metadata.domain : i \in pi } |->
                { paths[i].policy_id : i \in { j \in pi : paths[j].metadata.domain = d } }],
        paths_by_policy_id |->
            [p \in { paths[i].policy_id : i \in pi } |-> paths[last_path(p)]],
        constraints_by_scope |->
            [s \in { b.constraints[i].scope : i \in 1..Len(b.constraints) } |->
                { b.constraints[i].policy_id :
                    i \in { j \in 1..Len(b.constraints) : b.constraints[j].scope = s } }],
        dominance_lookup |->
            [k \in { { b.dominance_rules[i].when.policies_fire[n] :
                         n \in 1..Len(b.dominance_rules[i].when.policies_fire) } :
                     i \in 1..Len(b.dominance_rules) } |->
                b.dominance_rules[
                    CHOOSE i \in 1..Len(b.dominance_rules) :
                        /\ { b.dominance_rules[i].when.policies_fire[n] :
                               n \in 1..Len(b.dominance_rules[i].when.policies_fire) } = k
                        /\ \A j \in (i + 1)..Len(b.dominance_rules) :
                              { b.dominance_rules[j].when.policies_fire[n] :
                                  n \in 1..Len(b.dominance_rules[j].when.policies_fire) } # k]],
        escalation_lookup |->
            [k \in { { b.escalations[i].policies[n] : n \in 1..Len(b.escalations[i].policies) } :
                     i \in 1..Len(b.escalations) } |-> "escalation"]]

\* DOMAIN_KEYWORDS in dict order, with the number of keywords of each domain
\* and the words of the model's vocabulary among them
KeywordDomains == <<"refund", "privacy", "escalation", "security", "hr">>
KeywordCount == [d \in {"refund", "privacy", "escalation", "security", "hr"} |->
                    IF d \in {"escalation", "security"} THEN 6 ELSE 7]
KeywordsOf(d) ==
    CASE d = "refund" -> {"refund"}
      [] d = "security" -> {"password"}
      [] OTHER -> {}

\* the keyword loop of classify_query on the words of the query: the first
\* domain in dict order with the highest matches / len(keywords) above 0
RECURSIVE best_keyword_domain(_, _, _)
best_keyword_domain(words, i, best) ==
    IF i > Len(KeywordDomains) THEN best
    ELSE LET d == KeywordDomains[i]
             matches == Cardinality(KeywordsOf(d) \cap words)
         IN IF matches * best.len > best.matches * KeywordCount[d]
            THEN best_keyword_domain(words, i + 1,
                     [domain |-> d, matches |-> matches, len |-> KeywordCount[d]])
            ELSE best_keyword_domain(words, i + 1, best)

\* classify_query: the domains the call may return.  The query matches no
\* intent keyword.  Confidence is in hundredths.  `for bd in bundle_domains`
\* walks a set of str, whose order is not fixed from one interpreter run to
\* the next, so any bundle domain that occurs in the query may be the one taken
classify_query(words, b, llm_answer) ==
    LET kw == best_keyword_domain(words, 1, [domain |-> "unknown", matches |-> 0, len |-> 1])
        bundle_domains == { b.conditional_rules[i].metadata.domain :
                              i \in 1..Len(b.conditional_rules) }
        found == { bd \in bundle_domains : bd \in words }
        after_bundle ==
            IF kw.domain \notin bundle_domains /\ kw.domain # "unknown" /\ found # {}
            THEN { [domain |-> bd, conf_num |-> 60, conf_den |-> 100] : bd \in found }
            ELSE { [domain |-> kw.domain, conf_num |-> kw.matches, conf_den |-> kw.len] }
        after_llm(c) ==
            IF /\ c.conf_num * 100 < 60 * c.conf_den
               /\ ~llm_answer.fails
               /\ llm_answer.confidence * c.conf_den > c.conf_num * 100
            THEN llm_answer.domain
            ELSE c.domain
    IN { after_llm(c) : c \in after_bundle }

\* date.fromisoformat(eff) <= cutoff; a rule without eff_date is kept
effective(rule, cutoff) ==
    rule.metadata.eff_date = <<>> \/ rule.metadata.eff_date[1] <= cutoff

\* a retrieval that subscripts the defaultdict maps: a missing key is added
retrieve_rules_subscript(domain, idx, cutoff) ==
    LET touch(m, k) == IF k \in DOMAIN m THEN m
                       ELSE [d \in DOMAIN m \cup {k} |-> IF d \in DOMAIN m THEN m[d] ELSE {}]
        rules == { p \in DictGet(idx.rules_by_domain, domain, {}) :
                     effective(idx.rules_by_policy_id[p], cutoff) }
    IN [rules |-> rules,
        paths |-> { p \in DictGet(idx.paths_by_domain, domain, {}) : p \in rules },
        constraints |-> DictGet(idx.constraints_by_scope, "always", {})
                            \cup DictGet(idx.constraints_by_scope, domain, {}),
        index |-> [idx EXCEPT !.rules_by_domain = touch(@, domain),
                              !.paths_by_domain = touch(@, domain),
                              !.constraints_by_scope = touch(touch(@, "always"), domain)]]

\* retrieve_rules with the lookups done by dict.get: the rules and paths of
\* the domain, and the index as the call leaves it
retrieve_rules(domain, idx, cutoff) ==
    LET rules == { p \in DictGet(idx.rules_by_domain, domain, {}) :
                     effective(idx.rules_by_policy_id[p], cutoff) }
    IN [rules |-> rules,
        paths |-> { p \in DictGet(idx.paths_by_domain, domain, {}) : p \in rules },
        constraints |-> DictGet(idx.constraints_by_scope, "always", {})
                            \cup DictGet(idx.constraints_by_scope, domain, {}),
        index |-> idx]

\* a resolver that drops a side on an explicit rule of any mode
apply_dominance_any_mode(rules, paths, idx, priority_lattice) ==
    LET pairs == { pq \in rules \X rules : IdRank(pq[1]) < IdRank(pq[2]) }
        dr(pq) == DictGet(idx.dominance_lookup, {pq[1], pq[2]}, <<>>)
        rank(p) == DictGet(priority_lattice, idx.rules_by_policy_id[p].metadata.priority, 3)
        loser(pq) ==
            IF dr(pq) # <<>>
            THEN {IF dr(pq).then.enforce = pq[1] THEN pq[2] ELSE pq[1]}
            ELSE IF rank(pq[1]) # rank(pq[2])
                 THEN {IF rank(pq[1]) < rank(pq[2]) THEN pq[2] ELSE pq[1]}
                 ELSE {}
        losers == UNION { loser(pq) : pq \in pairs }
    IN [rules |-> rules \ losers,
        paths |-> paths \ losers,
        applied |-> { dr(pq) : pq \in { x \in pairs : dr(x) # <<>> } }]

\* apply_dominance: every pair of retrieved rules in sorted order: an
\* explicit rule of mode override drops the side it does not enforce,
\* without an explicit rule the side with the larger lattice rank is dropped
apply_dominance(rules, paths, idx, priority_lattice) ==
    LET pairs == { pq \in rules \X rules : IdRank(pq[1]) < IdRank(pq[2]) }
        dr(pq) == DictGet(idx.dominance_lookup, {pq[1], pq[2]}, <<>>)
        rank(p) == DictGet(priority_lattice, idx.rules_by_policy_id[p].metadata.priority, 3)
        loser(pq) ==
            IF dr(pq) # <<>>
            THEN IF dr(pq).then.mode = "override"
                 THEN {IF dr(pq).then.enforce = pq[1] THEN pq[2] ELSE pq[1]}
                 ELSE {}
            ELSE IF rank(pq[1]) # rank(pq[2])
                 THEN {IF rank(pq[1]) < rank(pq[2]) THEN pq[2] ELSE pq[1]}
                 ELSE {}
        losers == UNION { loser(pq) : pq \in pairs }
    IN [rules |-> rules \ losers,
        paths |-> paths \ losers,
        applied |-> { dr(pq) : pq \in { x \in pairs : dr(x) # <<>> } }]

\* the first loop of compute_coverage: the distinct variables of the
\* applicable paths
nodes_required(paths, idx) ==
    UNION { { idx.paths_by_policy_id[p].path[i].var :
                i \in 1..Len(idx.paths_by_policy_id[p].path) } : p \in paths }

\* build_context: classify, retrieve, resolve; one context per domain the
\* classification may return
build_context(words, b, idx, llm_answer, cutoff) ==
    { LET got == retrieve_rules(d, idx, cutoff)
          kept == apply_dominance(got.rules, got.paths, idx, b.priority_lattice)
      IN [domain |-> d,
          applicable_rules |-> kept.rules,
          applicable_paths |-> kept.paths,
          applicable_constraints |-> got.constraints,
          dominance_applied |-> kept.applied,
          nodes_required |-> Cardinality(nodes_required(kept.paths, idx))] :
      d \in classify_query(words, b, llm_answer) }

\* --------------------------------------------------------------- enforce
\* the bundle of the enforce calls: domain "refund" with two rules of equal
\* priority and no dominance rule; p2 takes effect on day 2 and its path
\* tests MaxNodes variables, p1 has no condition
EnforceBundle ==
    [conditional_rules |->
        <<[policy_id |-> "p1",
           metadata |-> [domain |-> "refund", priority |-> "company", eff_date |-> <<>>,
                         regulatory_linkage |-> <<>>]],
          [policy_id |-> "p2",
           metadata |-> [domain |-> "refund", priority |-> "company", eff_date |-> <<2>>,
                         regulatory_linkage |-> <<>>]]>>,
     compiled_paths |->
        <<[policy_id |-> "p1", path |-> <<>>,
           metadata |-> [domain |-> "refund", priority |-> "company", eff_date |-> <<>>,
                         regulatory_linkage |-> <<>>]],
          [policy_id |-> "p2", path |-> [i \in 1..MaxNodes |-> [var |-> i]],
           metadata |-> [domain |-> "refund", priority |-> "company", eff_date |-> <<2>>,
                         regulatory_linkage |-> <<>>]]>>,
     constraints |-> <<>>,
     dominance_rules |-> <<>>,
     escalations |-> <<>>,
     priority_lattice |-> PRIORITY_RANK]

\* the LLM answers of a classification: the call fails, or a domain with a
\* confidence in hundredths
NoAnswer == [fails |-> TRUE, domain |-> "unknown", confidence |-> 0]

\* queries of the enforce calls with the day of the call: no keyword at
\* all, a refund query before and after p2 takes effect, a query on passwords
\* (a keyword domain the bundle has no rules for); the classification prompt
\* gets no usable answer
EnforceQueries ==
    { [query |-> {}, today |-> 1],
      [query |-> {"refund"}, today |-> 1],
      [query |-> {"refund"}, today |-> 2],
      [query |-> {"password"}, today |-> 1] }

\* EnforcementConfig and the optional arguments of enforce; the verifier
\* switches are the four settings the command line can produce (--no-judge,
\* --no-smt) and the setting with the regex check alone switched off
\* EnforcementConfig.timeout_ms, and the durations (time.time() - t0) * 1000
\* of a call told apart: within the timeout, and beyond it
timeout_ms == 30000
Durations == {1, timeout_ms + 1}

Configs ==
    { c \in [max_retries : 0..MaxRetries,
             auto_correct_max_attempts : 0..MaxAutoCorrect,
             judge_enabled : BOOLEAN,
             smt_enabled : BOOLEAN,
             regex_enabled : BOOLEAN,
             timeout_ms : {timeout_ms},
             generate_fn : BOOLEAN,      \* a generate_fn callback was passed
             audit_logger : BOOLEAN,     \* an AuditLogger was passed
             judge_down : BOOLEAN] :     \* the judge client fails on every call
        /\ ~c.regex_enabled => (c.judge_enabled /\ c.smt_enabled)
        /\ c.judge_down => c.judge_enabled }

\* the report _make_report(regex_passed) of the scoring tests: every sub-score
\* 1.0, the regex result as given
make_report(regex_passed) ==
    [regex_result |-> [passed |-> regex_passed,
                       flags |-> IF regex_passed THEN <<>> ELSE <<"flag">>,
                       score |-> One],
     smt_result |-> [passed |-> TRUE, violations |-> <<>>, score |-> One],
     judge_result |-> [score |-> One, issues |-> <<>>],
     coverage_result |-> [score |-> One]]

\* no determine_action call of its own is under way
InitIdleScoring ==
    /\ score_arg = 0
    /\ report_arg = make_report(TRUE)
    /\ action_ret = <<>>

\* no compile_from_policies call is under way
InitIdleValidation ==
    /\ policies = <<>>
    /\ z3_unknown = {}
    /\ solve_ret = <<>>
    /\ vpc = "idle"
    /\ policy_ir = <<>>
    /\ decision_graph = <<>>
    /\ conflict_report = <<>>
    /\ resolution_report = <<>>
    /\ compiled_bundle = <<>>

InitIdleAux == InitIdleScoring /\ InitIdleValidation /\ runs = <<>> /\ exit_code = <<>>

Init ==
    /\ cfg \in Configs
    /\ \E q \in EnforceQueries : query = q.query /\ today = q.today
    /\ classify_answer = NoAnswer
    /\ bundle = EnforceBundle
    /\ bundle_index = BundleIndex(EnforceBundle)
    /\ pc = "call"
    /\ context = [domain |-> "unknown", applicable_rules |-> {}, applicable_paths |-> {},
                  applicable_constraints |-> {}, dominance_applied |-> {},
                  nodes_required |-> 0]
    /\ response = 0
    /\ report = <<>>
    /\ decision = <<>>
    /\ retries = 0
    /\ fixRetries = 0
    /\ doNotRetries = 0
    /\ generatorCalls = 0
    /\ postgenCalls = 0
    /\ raised = "none"
    /\ duration_ms = 0
    /\ injection = <<>>
    /\ prompt = <<>>
    /\ sent = <<>>
    /\ log_file = <<>>
    /\ loggers = <<None>>
    /\ tampered = FALSE
    /\ threads = <<>>
    /\ InitIdleAux

\* line 120: build_context(query, bundle, bundle_index, llm_client); the
\* index is what retrieve_rules leaves of it
BuildContext ==
    /\ pc = "call"
    /\ \E ctx \in build_context(query, bundle, bundle_index, classify_answer, today) :
         /\ context' = ctx
         /\ bundle_index' = retrieve_rules(ctx.domain, bundle_index, today).index
    /\ pc' = "pregen"
    /\ UNCHANGED <<cfg, response, report, decision, retries, fixRetries, doNotRetries,
                   generatorCalls, postgenCalls, raised, log_file, loggers>>
    /\ UNCHANGED <<duration_ms, injection, prompt, sent>>  \* more locals
    /\ UNCHANGED <<query, classify_answer, today, bundle>>
    /\ UNCHANGED sideVars

ShortCircuitCond == context.applicable_rules = {} /\ context.domain = "unknown"

\* ---- duringgen.py and the prompts of enforce.  A text is kept as its
\* parts: the system part as the constraints and enforced policies it lists,
\* the user part as the query with the scaffold (head) followed by the blocks
\* appended to it (tail)
\* serialize_scaffold: no step without paths; else one step per variable of
\* the paths, one note per dominance rule applied, and the final step
serialize_scaffold(paths, idx, dominance_applied) ==
    IF paths = {} THEN <<>>
    ELSE <<[steps |-> nodes_required(paths, idx), notes |-> dominance_applied]>>

build_injection_bundle(ctx, b, idx) ==
    [system_prompt_additions |->
        [constraints |-> ctx.applicable_constraints,
         enforce |-> { dr.then.enforce : dr \in ctx.dominance_applied }],
     scaffold_steps |->
        serialize_scaffold(ctx.applicable_paths, idx, ctx.dominance_applied)]

format_full_prompt(user_query, inj) ==
    [system |-> inj.system_prompt_additions,
     user |-> [head |-> [query |-> user_query, scaffold |-> inj.scaffold_steps],
               tail |-> <<>>]]

\* decision.violations[:5]
FirstFive(violations) ==
    SubSeq(violations, 1, IF Len(violations) < 5 THEN Len(violations) ELSE 5)

\* lines 163-167 and 191-195: a new dict with the system part of the base
\* prompt and its user part followed by one block of hints
corrected_prompt(base, dec) ==
    [system |-> base.system,
     user |-> [base.user EXCEPT !.tail =
                  @ \o <<[kind |-> "FIX", hints |-> FirstFive(dec.violations)]>>]]

tighter_prompt(base, dec) ==
    [system |-> base.system,
     user |-> [base.user EXCEPT !.tail =
                  @ \o <<[kind |-> "DO NOT", hints |-> FirstFive(dec.violations)]>>]]

\* retries built on the prompt of the previous generator call
RetryPromptBase_latest == sent[1]
\* the dict the retry prompts are built from: the local `prompt`
RetryPromptBase == prompt[1]

\* lines 123-136: no rules and domain "unknown": pass, audit, return
ShortCircuit ==
    /\ pc = "pregen"
    /\ ShortCircuitCond
    /\ LET d == [score |-> ScoreOne, action |-> PASS, violations |-> <<>>,
                 llm_response |-> 0, corrected_response |-> <<>>]
       IN /\ decision' = Some(d)
          /\ IF cfg.audit_logger
             THEN log(1, build_audit_entry(context, <<>>, d))
             ELSE UNCHANGED <<log_file, loggers>>
    /\ pc' = "returned"
    /\ duration_ms' \in Durations
    /\ UNCHANGED <<cfg, context, response, report, retries, fixRetries, doNotRetries,
                   generatorCalls, postgenCalls, raised>>
    /\ UNCHANGED <<injection, prompt, sent>>  \* more locals
    /\ UNCHANGED enfArgs
    /\ UNCHANGED sideVars

\* lines 138-151: the first generation; generate_fn is called outside any try,
\* a failing llm_client.invoke_json gives the response ""
Generate ==
    /\ pc = "pregen"
    /\ ~ShortCircuitCond
    /\ injection' = Some(build_injection_bundle(context, bundle, bundle_index))
    /\ prompt' = Some(format_full_prompt(query, injection'[1]))
    /\ sent' = prompt'
    /\ generatorCalls' = generatorCalls + 1
    /\ \E fails \in BOOLEAN :
         IF fails /\ cfg.generate_fn
         THEN /\ pc' = "raised" /\ raised' = "generate_fn" /\ UNCHANGED response
         ELSE /\ pc' = "generated"
              /\ response' = (IF fails THEN 0 ELSE generatorCalls + 1)
              /\ UNCHANGED raised
    /\ UNCHANGED <<cfg, context, report, decision, retries, fixRetries, doNotRetries,
                   postgenCalls, log_file, loggers>>
    /\ UNCHANGED <<duration_ms>>  \* more locals
    /\ UNCHANGED enfArgs
    /\ UNCHANGED sideVars

\* lines 153-155: first _run_postgen and build_compliance_decision
Postgen ==
    /\ pc = "generated"
    /\ postgenCalls' = postgenCalls + 1
    /\ \E in \in PostgenInputs(context, cfg) :
         LET out == run_postgen(in, context, cfg)
         IN IF out.raised # "none"
            THEN /\ pc' = "raised" /\ raised' = out.raised
                 /\ UNCHANGED <<report, decision>>
            ELSE /\ pc' = "routing"
                 /\ report' = out.report
                 /\ decision' = Some(build_compliance_decision(out.report[1], response))
                 /\ UNCHANGED raised
    /\ UNCHANGED <<cfg, context, response, retries, fixRetries, doNotRetries,
                   generatorCalls, log_file, loggers>>
    /\ UNCHANGED <<duration_ms, injection, prompt, sent>>  \* more locals
    /\ UNCHANGED enfArgs
    /\ UNCHANGED sideVars

RetryActions == {AUTO_CORRECT, REGENERATE}

\* line 161 / line 189: the conditions that open a retry branch
auto_correct_open(dec, r, c) ==
    dec.action = AUTO_CORRECT /\ r < c.auto_correct_max_attempts

regenerate_open_unbounded(dec, r, c) ==
    dec.action = REGENERATE /\ r <= c.max_retries

regenerate_open(dec, r, c) ==
    dec.action = REGENERATE /\ r < c.max_retries

\* lines 161-187: one FIX-hint retry
AutoCorrectRetry ==
    /\ pc = "routing"
    /\ auto_correct_open(decision[1], retries, cfg)
    /\ fixRetries' = fixRetries + 1
    /\ sent' = Some(corrected_prompt(RetryPromptBase, decision[1]))
    /\ generatorCalls' = generatorCalls + 1
    /\ \E fails \in BOOLEAN :
         IF fails
         THEN \* generate_fn raises out of enforce; invoke_json failing breaks the loop
              /\ IF cfg.generate_fn
                 THEN pc' = "raised" /\ raised' = "generate_fn"
                 ELSE pc' = "finish" /\ UNCHANGED raised
              /\ UNCHANGED <<report, decision, retries, postgenCalls>>
         ELSE /\ postgenCalls' = postgenCalls + 1
              /\ \E in \in PostgenInputs(context, cfg) :
                   LET new_response == generatorCalls + 1
                       out == run_postgen(in, context, cfg)
                       new_decision == build_compliance_decision(out.report[1], new_response)
                   IN IF out.raised # "none"
                      THEN /\ pc' = "raised" /\ raised' = out.raised
                           /\ UNCHANGED <<report, decision, retries>>
                      ELSE /\ UNCHANGED raised
                           /\ report' = out.report
                           /\ IF new_decision.score >= THRESHOLD_PASS
                              THEN /\ decision' = Some([new_decision EXCEPT
                                         !.corrected_response = Some(new_response)])
                                   /\ pc' = "finish"
                                   /\ UNCHANGED retries
                              ELSE /\ decision' = Some(new_decision)
                                   /\ retries' = retries + 1
                                   /\ pc' = "routing"
    /\ UNCHANGED <<cfg, context, response, doNotRetries, log_file, loggers>>
    /\ UNCHANGED <<duration_ms, injection, prompt>>  \* more locals
    /\ UNCHANGED enfArgs
    /\ UNCHANGED sideVars

\* lines 189-214: one DO-NOT retry
RegenerateRetry ==
    /\ pc = "routing"
    /\ regenerate_open(decision[1], retries, cfg)
    /\ doNotRetries' = doNotRetries + 1
    /\ sent' = Some(tighter_prompt(RetryPromptBase, decision[1]))
    /\ generatorCalls' = generatorCalls + 1
    /\ \E fails \in BOOLEAN :
         IF fails
         THEN /\ IF cfg.generate_fn
                 THEN pc' = "raised" /\ raised' = "generate_fn"
                 ELSE pc' = "finish" /\ UNCHANGED raised
              /\ UNCHANGED <<report, decision, retries, postgenCalls>>
         ELSE /\ postgenCalls' = postgenCalls + 1
              /\ \E in \in PostgenInputs(context, cfg) :
                   LET new_response == generatorCalls + 1
                       out == run_postgen(in, context, cfg)
                       new_decision == build_compliance_decision(out.report[1], new_response)
                   IN IF out.raised # "none"
                      THEN /\ pc' = "raised" /\ raised' = out.raised
                           /\ UNCHANGED <<report, decision, retries>>
                      ELSE /\ UNCHANGED raised
                           /\ retries' = retries + 1
                           /\ report' = out.report
                           /\ decision' = Some(new_decision)
                           /\ pc' = IF new_decision.action = PASS THEN "finish" ELSE "routing"
    /\ UNCHANGED <<cfg, context, response, fixRetries, log_file, loggers>>
    /\ UNCHANGED <<duration_ms, injection, prompt>>  \* more locals
    /\ UNCHANGED enfArgs
    /\ UNCHANGED sideVars

\* lines 215-218: neither retry branch is open: escalate and leave the loop
Exhausted ==
    /\ pc = "routing"
    /\ decision[1].action \in RetryActions
    /\ ~auto_correct_open(decision[1], retries, cfg)
    /\ ~regenerate_open(decision[1], retries, cfg)
    /\ decision' = Some([decision[1] EXCEPT !.action = ESCALATE])
    /\ pc' = "finish"
    /\ UNCHANGED <<cfg, context, response, report, retries, fixRetries, doNotRetries,
                   generatorCalls, postgenCalls, raised, log_file, loggers>>
    /\ UNCHANGED <<duration_ms, injection, prompt, sent>>  \* more locals
    /\ UNCHANGED enfArgs
    /\ UNCHANGED sideVars

\* lines 220-228: after the loop (its condition is false, or a break was
\* taken): duration_ms is measured and stored, audit entry, return
Finish ==
    /\ \/ pc = "finish"
       \/ pc = "routing" /\ decision[1].action \notin RetryActions
    /\ IF cfg.audit_logger
       THEN log(1, build_audit_entry(context, report, decision[1]))
       ELSE UNCHANGED <<log_file, loggers>>
    /\ pc' = "returned"
    /\ duration_ms' \in Durations
    /\ UNCHANGED <<cfg, context, response, report, decision, retries, fixRetries,
                   doNotRetries, generatorCalls, postgenCalls, raised>>
    /\ sent' = <<>>
    /\ UNCHANGED <<injection, prompt>>  \* more locals
    /\ UNCHANGED enfArgs
    /\ UNCHANGED sideVars

Next ==
    \/ BuildContext
    \/ ShortCircuit
    \/ Generate
    \/ Postgen
    \/ AutoCorrectRetry
    \/ RegenerateRetry
    \/ Exhausted
    \/ Finish

Spec == Init /\ [][Next]_vars

\* ------------------------------------------------- the enforce command
\* cli.py main / main.py cmd_enforce: the configuration takes the defaults
\* but for --no-judge and --no-smt, the audit logger is there unless
\* cmd_enforce got an empty --audit-log, generation goes to the LLM client
InitCli ==
    /\ Init
    /\ cfg.max_retries = 2
    /\ cfg.auto_correct_max_attempts = 1
    /\ cfg.regex_enabled
    /\ ~cfg.generate_fn

\* the command ends: after enforce returned the decision is printed and main
\* returns, so the interpreter exits with 0; an exception that left enforce
\* is caught nowhere and the interpreter exits with 1
CliExit ==
    /\ exit_code = <<>>
    /\ pc \in {"returned", "raised"}
    /\ exit_code' = Some(IF pc = "returned" THEN 0 ELSE 1)
    /\ UNCHANGED <<enfVars, log_file, loggers, tampered, threads, scoreVars, valVars, runs>>

NextCli == Next \/ CliExit

SpecCli == InitCli /\ [][NextCli]_vars

\* ------------------------------------------- the audit log on its own
\* entries handed to log(): a short-circuit pass (score 1.0) or an
\* escalation at 0.85, with or without a domain
AuditEntries ==
    { [domain |-> d, postgen_report |-> <<>>,
       compliance_score |-> IF a = PASS THEN ScoreOne ELSE THRESHOLD_AUTO_CORRECT,
       final_action |-> a] : d \in {<<>>, <<"refund">>}, a \in {PASS, ESCALATE} }

\* no enforce call is under way
InitIdleLocals ==
    /\ cfg = [max_retries |-> MaxRetries, auto_correct_max_attempts |-> MaxAutoCorrect,
              judge_enabled |-> TRUE, smt_enabled |-> TRUE, regex_enabled |-> TRUE,
              timeout_ms |-> timeout_ms, generate_fn |-> FALSE, audit_logger |-> TRUE,
              judge_down |-> FALSE]
    /\ pc = "call"
    /\ context = [domain |-> "unknown", applicable_rules |-> {}, applicable_paths |-> {},
                  applicable_constraints |-> {}, dominance_applied |-> {},
                  nodes_required |-> 0]
    /\ response = 0
    /\ report = <<>>
    /\ decision = <<>>
    /\ retries = 0
    /\ fixRetries = 0
    /\ doNotRetries = 0
    /\ generatorCalls = 0
    /\ postgenCalls = 0
    /\ raised = "none"
    /\ duration_ms = 0
    /\ injection = <<>>
    /\ prompt = <<>>
    /\ sent = <<>>

InitIdleEnforce ==
    /\ InitIdleLocals
    /\ query = {}
    /\ classify_answer = NoAnswer
    /\ today = 1
    /\ bundle = EnforceBundle
    /\ bundle_index = BundleIndex(EnforceBundle)

InitAudit ==
    /\ InitIdleEnforce
    /\ InitIdleAux
    /\ log_file = <<>>
    /\ loggers = <<None>>
    /\ tampered = FALSE
    /\ threads = <<>>

\* AuditLogger.__init__: one more logger object on the same path; it starts
\* with _prev_hash = None whatever the file holds
NewLogger ==
    /\ ~tampered
    /\ Len(loggers) < MaxLoggers
    /\ loggers' = Append(loggers, None)
    /\ UNCHANGED <<log_file, tampered, threads>>
    /\ UNCHANGED enfVars
    /\ UNCHANGED auxVars

\* one whole log() call by one of the loggers
LogEntry ==
    /\ ~tampered
    /\ Len(log_file) < MaxLog
    /\ \E lg \in 1..Len(loggers), e \in AuditEntries : log(lg, e)
    /\ UNCHANGED <<tampered, threads>>
    /\ UNCHANGED enfVars
    /\ UNCHANGED auxVars

HashFields == {"entry_hash", "prev_hash"}
EntryFields == {"domain", "postgen_report", "compliance_score", "final_action"}

\* values an editor of the file may put in place of a stored one
HashEdits == {None, <<"">>, sha256(<<"">>, model_dump_json(
                 [domain |-> <<>>, postgen_report |-> <<>>,
                  compliance_score |-> 0, final_action |-> PASS]))}
JsonEdits == {JNull, JStr("refund"), JStr("security"), JStr("pass"), JStr("escalate"),
              JStr("1.0"), JInt(1), JInt(0), JFloat(ScoreOne), JFloat(0)}

\* the file is edited outside the program: one field of one line of a log
\* that verifies gets a different value
Tamper ==
    /\ ~tampered
    /\ Len(log_file) > 0
    /\ verify_integrity(log_file) = "True"
    /\ \E i \in 1..Len(log_file), f \in HashFields \cup EntryFields :
         \E x \in (IF f \in HashFields THEN HashEdits ELSE JsonEdits) :
            /\ x # log_file[i][f]
            /\ log_file' = [log_file EXCEPT ![i][f] = x]
    /\ tampered' = TRUE
    /\ UNCHANGED <<loggers, threads>>
    /\ UNCHANGED enfVars
    /\ UNCHANGED auxVars

NextAudit == NewLogger \/ LogEntry \/ Tamper

SpecAudit == InitAudit /\ [][NextAudit]_vars

\* ------------------------------- log() called from concurrent threads
IdleThread == [pc |-> "idle", entry |-> <<>>, entry_hash |-> None, record |-> <<>>]

InitConc ==
    /\ InitIdleEnforce
    /\ InitIdleAux
    /\ log_file = <<>>
    /\ loggers = <<None>>
    /\ tampered = FALSE
    /\ threads = [t \in 1..NumThreads |-> IdleThread]

\* log() calls begun and not yet written
InFlight == Cardinality({t \in 1..NumThreads : threads[t].pc \in {"hashed", "built"}})

\* lines 26-28: entry_json, hash_input from self._prev_hash, entry_hash
LogHash(t) ==
    /\ threads[t].pc = "idle"
    /\ Len(log_file) + InFlight < MaxLog
    /\ \E e \in AuditEntries :
         threads' = [threads EXCEPT ![t] =
                        [pc |-> "hashed", entry |-> Some(e),
                         entry_hash |-> sha256(OrEmpty(loggers[1]), model_dump_json(e)),
                         record |-> <<>>]]
    /\ UNCHANGED <<log_file, loggers, tampered>>
    /\ UNCHANGED enfVars
    /\ UNCHANGED auxVars

\* lines 30-34: the record, reading self._prev_hash again
LogBuild(t) ==
    /\ threads[t].pc = "hashed"
    /\ LET entry_json == model_dump_json(threads[t].entry[1])
       IN threads' = [threads EXCEPT ![t].pc = "built",
                         ![t].record = Some(
                            [entry_hash |-> threads[t].entry_hash,
                             prev_hash |-> loggers[1],
                             domain |-> entry_json.domain,
                             postgen_report |-> entry_json.postgen_report,
                             compliance_score |-> entry_json.compliance_score,
                             final_action |-> entry_json.final_action])]
    /\ UNCHANGED <<log_file, loggers, tampered>>
    /\ UNCHANGED enfVars
    /\ UNCHANGED auxVars

\* lines 36-38: the line is appended to the file
LogAppend(t) ==
    /\ threads[t].pc = "built"
    /\ log_file' = Append(log_file, threads[t].record[1])
    /\ threads' = [threads EXCEPT ![t].pc = "appended"]
    /\ UNCHANGED <<loggers, tampered>>
    /\ UNCHANGED enfVars
    /\ UNCHANGED auxVars

\* line 40: self._prev_hash = entry_hash
LogUpdate(t) ==
    /\ threads[t].pc = "appended"
    /\ loggers' = [loggers EXCEPT ![1] = threads[t].entry_hash]
    /\ threads' = [threads EXCEPT ![t] = IdleThread]
    /\ UNCHANGED <<log_file, tampered>>
    /\ UNCHANGED enfVars
    /\ UNCHANGED auxVars

NextConc ==
    \E t \in 1..NumThreads :
        \/ LogHash(t)
        \/ LogBuild(t)
        \/ LogAppend(t)
        \/ LogUpdate(t)

SpecConc == InitConc /\ [][NextConc]_vars

\* ------------------------------- Validation: policies to compiled bundle
\* values of conditions and tests carry their Python type
VBool(b) == [t |-> "bool", v |-> b]
VInt(n) == [t |-> "int", v |-> n]
VStr(x) == [t |-> "str", v |-> x]

\* concatenation of a sequence of sequences
RECURSIVE Flatten(_)
Flatten(ss) == IF ss = <<>> THEN <<>> ELSE Head(ss) \o Flatten(Tail(ss))

\* _infer_variable_name: the variable a condition is about
_infer_variable_name(condition) ==
    CASE condition.type = "boolean_flag" -> condition.parameter
      [] condition.type = "time_window" -> "days_since_purchase"
      [] condition.type = "customer_tier" -> "customer_tier"

\* _infer_variable_type: the Z3 type of that variable
_infer_variable_type(condition) ==
    CASE condition.type = "boolean_flag" -> "bool"
      [] condition.type = "time_window" -> "int"
      [] condition.type = "customer_tier" -> "enum"

\* _condition_to_ir: the triple {var, op, value}; operator and value are
\* copied as they are, whatever the type of the variable
_condition_to_ir(condition, var_name) ==
    [var |-> var_name, op |-> condition.operator, value |-> condition.value]

\* _build_metadata
_build_metadata(policy) ==
    [domain |-> policy.metadata.domain,
     priority |-> policy.metadata.priority,
     regulatory_linkage |-> policy.metadata.regulatory_linkage]

\* _infer_action_value
_infer_action_value(action_type) ==
    CASE action_type = "required" -> "full"
      [] action_type = "fallback" -> "partial"
      [] OTHER -> action_type

\* build_policy_ir: the variable schema (a variable keeps the type of the
\* first condition that names it) and one conditional rule per action of a
\* policy that has a condition or a `requires`
build_policy_ir(ps) ==
    LET conds == Flatten([k \in 1..Len(ps) |-> ps[k].conditions])
        names == { _infer_variable_name(conds[i]) : i \in 1..Len(conds) }
        first(v) == CHOOSE i \in 1..Len(conds) :
                        /\ _infer_variable_name(conds[i]) = v
                        /\ \A j \in 1..(i - 1) : _infer_variable_name(conds[j]) # v
        rules_of(policy) ==
            LET ir_conditions ==
                    [i \in 1..Len(policy.conditions) |->
                        _condition_to_ir(policy.conditions[i],
                                         _infer_variable_name(policy.conditions[i]))]
            IN IF ir_conditions # <<>> \/ policy.action.requires
               THEN << [policy_id |-> policy.policy_id,
                        conditions |-> ir_conditions,
                        action |-> [type |-> policy.action.action,
                                    value |-> _infer_action_value(policy.action.type)],
                        metadata |-> _build_metadata(policy)] >>
               ELSE <<>>
    IN [variables |->
            [v \in names |->
                [type |-> _infer_variable_type(conds[first(v)]),
                 values |-> { conds[i].value.v : i \in
                                { j \in 1..Len(conds) :
                                    /\ _infer_variable_name(conds[j]) = v
                                    /\ _infer_variable_type(conds[j]) = "enum"
                                    /\ conds[j].value.t = "str" } }]],
        conditional_rules |-> Flatten([k \in 1..Len(ps) |-> rules_of(ps[k])])]

\* normalize_action: "type:value"
normalize_action(action_type, action_value) == action_type \o ":" \o action_value

\* _variable_priority without the name: bool first, then enum, then
\* numeric, more frequent variables first
_variable_priority(var, schema, freq) ==
    <<(IF schema[var].type = "bool" THEN 0
       ELSE IF schema[var].type = "enum" THEN 1 ELSE 2),
      0 - freq[var]>>

\* the variable names of the model in alphabetical order (the last
\* component of the sort key)
VarNames == <<"customer_tier", "days_since_purchase", "has_receipt">>
NameRank(v) == CHOOSE i \in 1..Len(VarNames) : VarNames[i] = v

\* sorted(decision_vars, key=_variable_priority)
RECURSIVE SortedVars(_, _, _)
SortedVars(todo, schema, freq) ==
    IF todo = {} THEN <<>>
    ELSE LET key(v) == _variable_priority(v, schema, freq)
             before(a, b) ==
                 \/ key(a)[1] < key(b)[1]
                 \/ key(a)[1] = key(b)[1] /\ key(a)[2] < key(b)[2]
                 \/ key(a) = key(b) /\ NameRank(a) < NameRank(b)
             least == CHOOSE a \in todo : \A b \in todo \ {a} : before(a, b)
         IN <<least>> \o SortedVars(todo \ {least}, schema, freq)

\* _compile_path: the rule's tests grouped by variable, in node order
_compile_path(rule, ordered_decisions) ==
    LET grouped(v) ==
            LET mine == SelectSeq(rule.conditions, LAMBDA a : a.var = v)
            IN [i \in 1..Len(mine) |-> [op |-> mine[i].op, value |-> mine[i].value]]
        used == SelectSeq(ordered_decisions, LAMBDA v : grouped(v) # <<>>)
    IN [i \in 1..Len(used) |-> [var |-> used[i], tests |-> grouped(used[i])]]

\* build_decision_graph: ordered decision nodes and one compiled path per rule
build_decision_graph(ir) ==
    LET rules == ir.conditional_rules
        schema == ir.variables
        all == Flatten([k \in 1..Len(rules) |-> rules[k].conditions])
        decision_vars == { all[i].var : i \in 1..Len(all) }
        freq == [v \in decision_vars |->
                    Cardinality({ i \in 1..Len(all) : all[i].var = v })]
        ordered_decisions == SortedVars(decision_vars, schema, freq)
    IN [decision_nodes |-> ordered_decisions,
        compiled_paths |->
            [k \in 1..Len(rules) |->
                [policy_id |-> rules[k].policy_id,
                 path |-> _compile_path(rules[k], ordered_decisions),
                 leaf_action |-> normalize_action(rules[k].action.type,
                                                  rules[k].action.value),
                 metadata |-> rules[k].metadata]]]

\* ---- z3_utils: tests as Z3 constraints
\* encode_test builds z3v <op> value with Python's operators: a Bool has
\* == and != only, an Int has all six, a String has == and != with a str
\* (its ordering operators take Z3 expressions, not a str); anything else
\* raises while the constraint is built
encodable(vtype, test) ==
    CASE vtype = "bool" -> test.op \in {"==", "!="} /\ test.value.t = "bool"
      [] vtype = "int" -> test.op \in {"==", "!=", "<=", ">=", ">", "<"}
                          /\ test.value.t = "int"
      [] vtype = "enum" -> test.op \in {"==", "!="} /\ test.value.t = "str"
      [] OTHER -> FALSE

\* the constraint encode_test builds, evaluated at the value x of the variable
test_holds(x, test) ==
    CASE test.op = "==" -> x = test.value
      [] test.op = "!=" -> x # test.value
      [] test.op = "<=" -> x.v <= test.value.v
      [] test.op = ">=" -> x.v >= test.value.v
      [] test.op = ">" -> x.v > test.value.v
      [] test.op = "<" -> x.v < test.value.v

\* values a Z3 variable of a type ranges over, cut to what the tests of the
\* model can tell apart: both booleans, the integers around the constants,
\* and for a String the constants and one string that is none of them
Z3Values(vtype) ==
    CASE vtype = "bool" -> { VBool(b) : b \in BOOLEAN }
      [] vtype = "int" -> { VInt(n) : n \in 0..2 }
      [] vtype = "enum" -> { VStr(x) : x \in {"gold", "silver", ""} }

\* all {var, test} pairs of a compiled path
TestsOf(path) ==
    Flatten([i \in 1..Len(path) |->
                [j \in 1..Len(path[i].tests) |->
                    [var |-> path[i].var, test |-> path[i].tests[j]]]])

\* a solve_paths that calls two paths testing a common variable unsatisfiable
solve_paths_disjoint_only(path_a, path_b, schema, gives_up) ==
    LET ta == TestsOf(path_a)
        tb == TestsOf(path_b)
        tests == ta \o tb
    IN IF \E i \in 1..Len(tests) : ~encodable(schema[tests[i].var].type, tests[i].test)
       THEN "raise"
       ELSE IF gives_up THEN "unknown"
       ELSE IF \E i \in 1..Len(ta), j \in 1..Len(tb) : ta[i].var = tb[j].var
            THEN "unsat" ELSE "sat"

\* solve_paths up to line 66: "raise" when a test cannot be encoded, else
\* the answer of solver.check(): "unknown" when the solver gives up, else
\* whether the tests of both paths are satisfiable; every test constrains
\* one variable, so the conjunction is satisfiable iff each variable has a
\* value passing its tests. Every answer but "sat" makes solve_paths
\* return None
solve_paths(path_a, path_b, schema, gives_up) ==
    LET tests == TestsOf(path_a) \o TestsOf(path_b)
        idx == 1..Len(tests)
    IN IF \E i \in idx : ~encodable(schema[tests[i].var].type, tests[i].test)
       THEN "raise"
       ELSE IF gives_up THEN "unknown"
       ELSE IF \A v \in DOMAIN schema :
                  \E x \in Z3Values(schema[v].type) :
                      \A i \in idx : tests[i].var = v => test_holds(x, tests[i].test)
            THEN "sat"
            ELSE "unsat"

\* model.eval(z3v, model_completion=True) turned into a native value by the
\* declared type: bool(val), val.as_long(), val.as_string()
materialise(val, vtype) ==
    CASE vtype = "bool" -> VBool(val.v)
      [] vtype = "int" -> VInt(val.v)
      [] vtype = "enum" -> VStr(val.v)

\* solve_paths from line 68 on, for tests the solver found satisfiable: the
\* witnesses it may return, one for every model of the tests, a model giving
\* every variable of the schema a value of its Z3 sort
solve_paths_witness(path_a, path_b, schema) ==
    LET tests == TestsOf(path_a) \o TestsOf(path_b)
        idx == 1..Len(tests)
        models ==
            { f \in [DOMAIN schema ->
                        UNION { Z3Values(schema[v].type) : v \in DOMAIN schema }] :
                \A v \in DOMAIN schema :
                    /\ f[v] \in Z3Values(schema[v].type)
                    /\ \A i \in idx : tests[i].var = v => test_holds(f[v], tests[i].test) }
    IN { [v \in DOMAIN schema |-> materialise(f[v], schema[v].type)] : f \in models }

\* detect_conflicts: every pair of paths with different leaf actions is
\* solved; a pair found satisfiable is a logical conflict; an exception of
\* solve_paths ends the call; unknown is the set of pairs <<i, j>> of paths
\* on which the solver gives up
detect_conflicts(graph, ir, unknown) ==
    LET paths == graph.compiled_paths
        schema == ir.variables
        n == Len(paths)
        solved(i, j) == solve_paths(paths[i].path, paths[j].path, schema,
                                    <<i, j>> \in unknown)
        differ(i, j) == paths[i].leaf_action # paths[j].leaf_action
        conflict(i, j) ==
            [type |-> "logical",
             policies |-> <<paths[i].policy_id, paths[j].policy_id>>,
             actions |-> <<paths[i].leaf_action, paths[j].leaf_action>>,
             metadata |-> [p1 |-> paths[i].metadata, p2 |-> paths[j].metadata]]
        row(i) == Flatten([d \in 1..(n - i) |->
                              IF differ(i, i + d) /\ solved(i, i + d) = "sat"
                              THEN <<conflict(i, i + d)>> ELSE <<>>])
    IN IF \E i, j \in 1..n : i < j /\ differ(i, j) /\ solved(i, j) = "raise"
       THEN [raised |-> TRUE, logical_conflicts |-> <<>>]
       ELSE [raised |-> FALSE,
             logical_conflicts |-> Flatten([i \in 1..n |-> row(i)])]

\* ---- resolution.py
\* the ALIASES of _normalize_priority
ALIASES ==
    [p \in {"legal", "law", "reg", "values", "ethics", "privacy", "safety",
            "dept", "team", "promo", "temporary"} |->
        CASE p \in {"legal", "law", "reg"} -> "regulatory"
          [] p \in {"values", "ethics", "privacy", "safety"} -> "core_values"
          [] p \in {"dept", "team"} -> "department"
          [] p \in {"promo", "temporary"} -> "situational"]

\* _normalize_priority: a regulatory linkage wins, then the level itself,
\* then its alias, else "company"
_normalize_priority(meta) ==
    IF meta.regulatory_linkage # <<>> THEN "regulatory"
    ELSE IF meta.priority \in DOMAIN PRIORITY_RANK THEN meta.priority
    ELSE IF meta.priority \in DOMAIN ALIASES THEN ALIASES[meta.priority]
    ELSE "company"

_rank(meta) == PRIORITY_RANK[_normalize_priority(meta)]

\* word in leaf_action, for the words _action_relation looks for; the leaf
\* actions of the model are "<action>:full" with no action inside another
InAction(word, leaf_action) == leaf_action = normalize_action(word, "full")

\* _action_relation
_action_relation(a1, a2) ==
    IF \/ InAction("approval", a1) /\ InAction("refund", a2)
       \/ InAction("approval", a2) /\ InAction("refund", a1)
    THEN "compose" ELSE "override"

\* a _resolve_pair that drops a same-priority conflict instead of escalating it
_resolve_pair_drops_ties(conf, acc) ==
    LET p1 == conf.policies[1]
        p2 == conf.policies[2]
        pr1 == _rank(conf.metadata.p1)
        pr2 == _rank(conf.metadata.p2)
        rel == _action_relation(conf.actions[1], conf.actions[2])
        winner == IF pr1 < pr2 THEN p1 ELSE p2
    IN IF pr1 # pr2
       THEN [acc EXCEPT
               !.auto_resolutions = Append(@,
                   [conflict_type |-> "logical", policies |-> <<p1, p2>>,
                    winner |-> winner, loser |-> IF winner = p1 THEN p2 ELSE p1,
                    action_relation |-> rel]),
               !.dominance_rules = Append(@,
                   [when |-> [policies_fire |-> SortedPair(p1, p2)],
                    then |-> [mode |-> rel, enforce |-> winner]])]
       ELSE acc

\* _resolve_pair on a logical conflict, applied to the lists built so far
_resolve_pair(conf, acc) ==
    LET p1 == conf.policies[1]
        p2 == conf.policies[2]
        meta1 == conf.metadata.p1
        meta2 == conf.metadata.p2
        pr1 == _rank(meta1)
        pr2 == _rank(meta2)
        rel == _action_relation(conf.actions[1], conf.actions[2])
        winner == IF pr1 < pr2 THEN p1 ELSE p2
        loser == IF winner = p1 THEN p2 ELSE p1
        key == <<SortedPair(p1, p2), winner, rel>>
    IN IF pr1 # pr2
       THEN [acc EXCEPT
               !.auto_resolutions = Append(@,
                   [conflict_type |-> "logical", policies |-> <<p1, p2>>,
                    winner |-> winner, loser |-> loser, action_relation |-> rel]),
               !.seen_rules = @ \cup {key},
               !.dominance_rules =
                   IF key \in acc.seen_rules THEN @
                   ELSE Append(@,
                          [when |-> [policies_fire |-> SortedPair(p1, p2)],
                           then |-> [mode |-> IF rel = "compose" THEN "compose"
                                              ELSE "override",
                                     enforce |-> winner]])]
       ELSE [acc EXCEPT
               !.escalations = Append(@,
                   [conflict_type |-> "logical", policies |-> <<p1, p2>>,
                    actions |-> conf.actions,
                    priority |-> _normalize_priority(meta1)])]

RECURSIVE resolve_all(_, _)
resolve_all(confs, acc) ==
    IF confs = <<>> THEN acc
    ELSE resolve_all(Tail(confs), _resolve_pair(Head(confs), acc))

\* resolve_conflicts: the logical conflicts in report order (detect_conflicts
\* reports no semantic conflict)
resolve_conflicts(report_) ==
    LET out == resolve_all(report_.logical_conflicts,
                           [auto_resolutions |-> <<>>, escalations |-> <<>>,
                            dominance_rules |-> <<>>, seen_rules |-> {}])
    IN [priority_lattice |-> PRIORITY_RANK,
        auto_resolutions |-> out.auto_resolutions,
        escalations |-> out.escalations,
        conflict_free_plan |-> [dominance_rules |-> out.dominance_rules]]

\* compile_bundle
compile_bundle(ir, graph, resolution) ==
    [variables |-> ir.variables,
     conditional_rules |-> ir.conditional_rules,
     decision_nodes |-> graph.decision_nodes,
     compiled_paths |-> graph.compiled_paths,
     dominance_rules |-> resolution.conflict_free_plan.dominance_rules,
     escalations |-> resolution.escalations,
     priority_lattice |-> resolution.priority_lattice]

\* ---- compile_from_policies as a sequence of calls
\* conditions of the Extractor policies of the model: a boolean flag, a
\* time window (int) and a customer tier (enum), with well-typed tests and
\* with an ordering test on the bool and on the enum
Conditions ==
    { [type |-> "boolean_flag", parameter |-> "has_receipt",
       operator |-> t[1], value |-> VBool(t[2])] :
          t \in {<<"==", TRUE>>, <<"==", FALSE>>, <<"<", TRUE>>} }
    \cup { [type |-> "time_window", parameter |-> "",
            operator |-> op, value |-> VInt(1)] : op \in {"<", ">="} }
    \cup { [type |-> "customer_tier", parameter |-> "",
            operator |-> op, value |-> VStr("gold")] : op \in {"==", ">"} }

\* the same conditions and a disequality on the customer tier
SolveConditions ==
    Conditions \cup { [type |-> "customer_tier", parameter |-> "",
                       operator |-> "!=", value |-> VStr("gold")] }

\* what a policy requires at which priority level: a refund (regulatory or
\* company), an approval or a denial (company); the leaf actions are
\* "<action>:full"
ActionLevels ==
    { <<"refund", "regulatory">>, <<"refund", "company">>,
      <<"approval", "company">>, <<"deny", "company">> }

\* policy number k of an input: its id, at most one condition (a policy
\* without one has a `requires`), one required action, a priority level
ExtractorPolicies(k, conds) ==
    { [policy_id |-> PolicyIds[k],
       conditions |-> cs,
       action |-> [type |-> "required", action |-> al[1], requires |-> cs = <<>>],
       metadata |-> [domain |-> "refund", priority |-> al[2],
                     regulatory_linkage |-> <<>>]] :
         cs \in {<<>>} \cup { <<c>> : c \in conds },
         al \in ActionLevels }

\* the lists of n policies
RECURSIVE PolicyLists(_, _)
PolicyLists(n, conds) ==
    IF n = 0 THEN {<<>>}
    ELSE { Append(ps, p) : ps \in PolicyLists(n - 1, conds),
                           p \in ExtractorPolicies(n, conds) }

InitValidation ==
    /\ InitIdleEnforce
    /\ log_file = <<>>
    /\ loggers = <<None>>
    /\ tampered = FALSE
    /\ threads = <<>>
    /\ InitIdleScoring
    /\ policies \in UNION { PolicyLists(n, Conditions) : n \in 1..MaxPolicies }
    /\ z3_unknown = {}
    /\ solve_ret = <<>>
    /\ vpc = "start"
    /\ policy_ir = <<>>
    /\ decision_graph = <<>>
    /\ conflict_report = <<>>
    /\ resolution_report = <<>>
    /\ compiled_bundle = <<>>
    /\ runs = <<>>
    /\ exit_code = <<>>

\* policy_ir = build_policy_ir(policies)
BuildPolicyIR ==
    /\ vpc = "start"
    /\ policy_ir' = Some(build_policy_ir(policies))
    /\ vpc' = "ir"
    /\ UNCHANGED <<policies, z3_unknown, solve_ret, decision_graph, conflict_report, resolution_report,
                   compiled_bundle>>
    /\ UNCHANGED <<enfVars, log_file, loggers, tampered, threads, scoreVars, runs, exit_code>>

\* decision_graph = build_decision_graph(policy_ir)
BuildDecisionGraph ==
    /\ vpc = "ir"
    /\ decision_graph' = Some(build_decision_graph(policy_ir[1]))
    /\ vpc' = "graph"
    /\ UNCHANGED <<policies, z3_unknown, solve_ret, policy_ir, conflict_report, resolution_report,
                   compiled_bundle>>
    /\ UNCHANGED <<enfVars, log_file, loggers, tampered, threads, scoreVars, runs, exit_code>>

\* conflict_report = detect_conflicts(decision_graph, policy_ir); an
\* exception leaves compile_from_policies
DetectConflicts ==
    /\ vpc = "graph"
    /\ LET out == detect_conflicts(decision_graph[1], policy_ir[1], z3_unknown)
       IN IF out.raised
          THEN vpc' = "raised" /\ UNCHANGED conflict_report
          ELSE /\ vpc' = "conflicts"
               /\ conflict_report' =
                      Some([logical_conflicts |-> out.logical_conflicts])
    /\ UNCHANGED <<policies, z3_unknown, solve_ret, policy_ir, decision_graph, resolution_report,
                   compiled_bundle>>
    /\ UNCHANGED <<enfVars, log_file, loggers, tampered, threads, scoreVars, runs, exit_code>>

\* resolution_report = resolve_conflicts(conflict_report, decision_graph)
ResolveConflicts ==
    /\ vpc = "conflicts"
    /\ resolution_report' = Some(resolve_conflicts(conflict_report[1]))
    /\ vpc' = "resolved"
    /\ UNCHANGED <<policies, z3_unknown, solve_ret, policy_ir, decision_graph, conflict_report,
                   compiled_bundle>>
    /\ UNCHANGED <<enfVars, log_file, loggers, tampered, threads, scoreVars, runs, exit_code>>

\* return compile_bundle(...)
CompileBundle ==
    /\ vpc = "resolved"
    /\ compiled_bundle' = Some(compile_bundle(policy_ir[1], decision_graph[1],
                                              resolution_report[1]))
    /\ vpc' = "bundled"
    /\ UNCHANGED <<policies, z3_unknown, solve_ret, policy_ir, decision_graph, conflict_report,
                   resolution_report>>
    /\ UNCHANGED <<enfVars, log_file, loggers, tampered, threads, scoreVars, runs, exit_code>>

NextValidation ==
    \/ BuildPolicyIR
    \/ BuildDecisionGraph
    \/ DetectConflicts
    \/ ResolveConflicts
    \/ CompileBundle

SpecValidation == InitValidation /\ [][NextValidation]_vars

\* the same compilation with a solver that may give up: check() answers
\* unknown on any of the pairs it is asked about
InitSolverLimit ==
    /\ InitIdleEnforce
    /\ log_file = <<>>
    /\ loggers = <<None>>
    /\ tampered = FALSE
    /\ threads = <<>>
    /\ InitIdleScoring
    /\ policies \in UNION { PolicyLists(n, Conditions) : n \in 1..MaxPolicies }
    /\ z3_unknown \in SUBSET { pq \in (1..Len(policies)) \X (1..Len(policies)) :
                                  pq[1] < pq[2] }
    /\ solve_ret = <<>>
    /\ vpc = "start"
    /\ policy_ir = <<>>
    /\ decision_graph = <<>>
    /\ conflict_report = <<>>
    /\ resolution_report = <<>>
    /\ compiled_bundle = <<>>
    /\ runs = <<>>
    /\ exit_code = <<>>

SpecSolverLimit == InitSolverLimit /\ [][NextValidation]_vars

\* ------------------------------------------------ solve_paths on its own
\* solve_paths on two paths of the decision graph of compiled policies that
\* lead to different actions, as detect_conflicts calls it, with a solver that
\* decides every query; the policies may test the customer tier with !=
InitSolve ==
    /\ InitIdleEnforce
    /\ log_file = <<>>
    /\ loggers = <<None>>
    /\ tampered = FALSE
    /\ threads = <<>>
    /\ InitIdleScoring
    /\ policies \in UNION { PolicyLists(n, SolveConditions) : n \in 1..MaxPolicies }
    /\ z3_unknown = {}
    /\ solve_ret = <<>>
    /\ vpc = "solve"
    /\ policy_ir = <<>>
    /\ decision_graph = <<>>
    /\ conflict_report = <<>>
    /\ resolution_report = <<>>
    /\ compiled_bundle = <<>>
    /\ runs = <<>>
    /\ exit_code = <<>>

\* witness = solve_paths(p1["path"], p2["path"], schema)
SolvePaths ==
    /\ vpc = "solve"
    /\ LET ir == build_policy_ir(policies)
           paths == build_decision_graph(ir).compiled_paths
           schema == ir.variables
       IN \E i, j \in 1..Len(paths) :
            /\ i < j
            /\ paths[i].leaf_action # paths[j].leaf_action
            /\ LET check == solve_paths(paths[i].path, paths[j].path, schema, FALSE)
               IN IF check = "raise"
                  THEN vpc' = "raised" /\ UNCHANGED solve_ret
                  ELSE /\ vpc' = "solved"
                       /\ \E witness \in
                              IF check = "sat"
                              THEN { Some(w) : w \in solve_paths_witness(
                                         paths[i].path, paths[j].path, schema) }
                              ELSE {<<>>} :
                            solve_ret' = Some([path_a |-> paths[i].path,
                                               path_b |-> paths[j].path,
                                               schema |-> schema,
                                               witness |-> witness])
    /\ UNCHANGED <<policies, z3_unknown, policy_ir, decision_graph, conflict_report,
                   resolution_report, compiled_bundle>>
    /\ UNCHANGED <<enfVars, log_file, loggers, tampered, threads, scoreVars, runs, exit_code>>

NextSolve == SolvePaths

SpecSolve == InitSolve /\ [][NextSolve]_vars

\* ------------------------------------------- determine_action on its own
\* scores handed to determine_action, in units of 1e-5: a grid over [0, 1]
\* and the values next to each threshold
ScoreInputs ==
    { (k * ScoreOne) \div ScoreGrid : k \in 0..ScoreGrid }
    \cup { t + e : t \in {THRESHOLD_PASS, THRESHOLD_AUTO_CORRECT, THRESHOLD_REGENERATE},
                   e \in {-1, 0, 1} }

InitScoring ==
    /\ InitIdleEnforce
    /\ log_file = <<>>
    /\ loggers = <<None>>
    /\ tampered = FALSE
    /\ threads = <<>>
    /\ score_arg \in ScoreInputs
    /\ report_arg \in { make_report(p) : p \in BOOLEAN }
    /\ action_ret = <<>>
    /\ InitIdleValidation
    /\ runs = <<>>
    /\ exit_code = <<>>

\* a call that answers with the band above a threshold only beyond it
DetermineAction_strict ==
    /\ action_ret = <<>>
    /\ action_ret' = Some(IF ~report_arg.regex_result.passed THEN ESCALATE
                          ELSE IF score_arg > THRESHOLD_PASS THEN PASS
                          ELSE IF score_arg > THRESHOLD_AUTO_CORRECT THEN AUTO_CORRECT
                          ELSE IF score_arg > THRESHOLD_REGENERATE THEN REGENERATE
                          ELSE ESCALATE)
    /\ UNCHANGED <<score_arg, report_arg>>
    /\ UNCHANGED <<valVars, runs, exit_code>>
    /\ UNCHANGED enfVars
    /\ UNCHANGED <<log_file, loggers, tampered, threads>>

\* one call determine_action(score, report)
DetermineAction ==
    /\ action_ret = <<>>
    /\ action_ret' = Some(determine_action(score_arg, report_arg))
    /\ UNCHANGED <<score_arg, report_arg>>
    /\ UNCHANGED <<valVars, runs, exit_code>>
    /\ UNCHANGED enfVars
    /\ UNCHANGED <<log_file, loggers, tampered, threads>>

NextScoring == DetermineAction

SpecScoring == InitScoring /\ [][NextScoring]_vars

\* ---------------------------------------------- build_context on its own
\* bundles handed to build_context: MaxRules rules p1, p2, ... of domain
\* "billing" (the last one possibly of domain "shipping"), each of priority
\* regulatory or company without regulatory linkage, p1 possibly of priority
\* department with one, effective at once, each with a path testing one variable of its own; at most MaxDominanceRules dominance rules on distinct
\* pairs (listed in the order of their pairs), of mode override (enforcing
\* either side) or compose
PregenMetas(i) ==
    { [priority |-> "regulatory", regulatory_linkage |-> <<>>],
      [priority |-> "company", regulatory_linkage |-> <<>>] }
    \cup (IF i = 1 THEN {[priority |-> "department", regulatory_linkage |-> <<"law">>]}
          ELSE {})

PregenRule(i, dom, prio) ==
    [policy_id |-> PolicyIds[i],
     metadata |-> [domain |-> dom, priority |-> prio.priority, eff_date |-> <<>>,
                   regulatory_linkage |-> prio.regulatory_linkage]]

PregenPath(i, dom, prio) ==
    [policy_id |-> PolicyIds[i], path |-> <<[var |-> i]>>,
     metadata |-> [domain |-> dom, priority |-> prio.priority, eff_date |-> <<>>,
                   regulatory_linkage |-> prio.regulatory_linkage]]

DominanceRules ==
    { [when |-> [policies_fire |-> <<PolicyIds[i], PolicyIds[j]>>],
       then |-> [mode |-> m, enforce |-> PolicyIds[w]]] :
        <<i, j, m, w>> \in
            { x \in (1..MaxRules) \X (1..MaxRules) \X {"override", "compose"} \X (1..MaxRules) :
                /\ x[1] < x[2]
                /\ x[4] \in {x[1], x[2]}
                /\ (x[3] = "compose" => x[4] = x[1]) } }

RECURSIVE DominanceLists(_)
DominanceLists(n) ==
    IF n = 0 THEN {<<>>}
    ELSE DominanceLists(n - 1) \cup
         { Append(l, dr) : <<l, dr>> \in
             { y \in { z \in DominanceLists(n - 1) : Len(z) = n - 1 } \X DominanceRules :
                 LET r(x) == IdRank(x.when.policies_fire[1]) * (MaxRules + 1)
                                 + IdRank(x.when.policies_fire[2])
                 IN \A k \in 1..Len(y[1]) : r(y[1][k]) < r(y[2]) } }

PregenBundles ==
    { [conditional_rules |->
           [i \in 1..MaxRules |->
               PregenRule(i, IF i = MaxRules THEN last ELSE "billing", prio[i])],
       compiled_paths |->
           [i \in 1..MaxRules |->
               PregenPath(i, IF i = MaxRules THEN last ELSE "billing", prio[i])],
       constraints |-> <<>>,
       dominance_rules |-> drs,
       escalations |-> <<>>,
       priority_lattice |-> PRIORITY_RANK] :
        last \in {"billing", "shipping"},
        prio \in { f \in [1..MaxRules -> UNION { PregenMetas(i) : i \in 1..MaxRules }] :
                     \A i \in 1..MaxRules : f[i] \in PregenMetas(i) },
        drs \in DominanceLists(MaxDominanceRules) }

\* queries with the answer to the classification prompt: no keyword and no
\* answer; a security keyword alone, without an answer and with the answer
\* "billing"; the keyword with one bundle domain named in the text; the
\* keyword with both bundle domains named
PregenQueries ==
    { [query |-> {}, answer |-> NoAnswer],
      [query |-> {"password"}, answer |-> NoAnswer],
      [query |-> {"password"},
       answer |-> [fails |-> FALSE, domain |-> "billing", confidence |-> 90]],
      [query |-> {"password", "billing"}, answer |-> NoAnswer],
      [query |-> {"password", "billing", "shipping"}, answer |-> NoAnswer] }

InitPregen ==
    /\ InitIdleLocals
    /\ \E q \in PregenQueries : query = q.query /\ classify_answer = q.answer
    /\ today = 1
    /\ bundle \in PregenBundles
    /\ bundle_index = BundleIndex(bundle)
    /\ log_file = <<>>
    /\ loggers = <<None>>
    /\ tampered = FALSE
    /\ threads = <<>>
    /\ InitIdleAux

\* one call build_context(query, bundle, bundle_index, llm_client); up to
\* MaxRuns calls are made on the same arguments
BuildContextCall ==
    /\ Len(runs) < MaxRuns
    /\ \E ctx \in build_context(query, bundle, bundle_index, classify_answer, today) :
         /\ runs' = Append(runs, ctx)
         /\ bundle_index' = retrieve_rules(ctx.domain, bundle_index, today).index
    /\ UNCHANGED <<query, classify_answer, today, bundle>>
    /\ UNCHANGED <<enfLocals, log_file, loggers, tampered, threads, scoreVars, valVars, exit_code>>

NextPregen == BuildContextCall

SpecPregen == InitPregen /\ [][NextPregen]_vars

\* ------------------------------------- a compiled bundle at run time
\* policies whose rules all apply to a refund query: no condition, a
\* required action, a priority level with or without a regulatory linkage
LinkedPolicies(k) ==
    { [policy_id |-> PolicyIds[k],
       conditions |-> <<>>,
       action |-> [type |-> "required", action |-> a, requires |-> TRUE],
       metadata |-> [domain |-> "refund", priority |-> m.priority,
                     regulatory_linkage |-> m.regulatory_linkage]] :
         a \in {"refund", "approval", "deny"},
         m \in { [priority |-> "core_values", regulatory_linkage |-> <<>>],
                 [priority |-> "company", regulatory_linkage |-> <<>>],
                 [priority |-> "department", regulatory_linkage |-> <<"law">>] } }

RECURSIVE LinkedPolicyLists(_)
LinkedPolicyLists(n) ==
    IF n = 0 THEN {<<>>}
    ELSE { Append(ps, p) : ps \in LinkedPolicyLists(n - 1), p \in LinkedPolicies(n) }

\* RuleMetadata.model_validate: the fields of the schema; the policies of
\* the model have no effective_date
RuleMetadata(md) ==
    [domain |-> md.domain, priority |-> md.priority, eff_date |-> <<>>,
     regulatory_linkage |-> md.regulatory_linkage]

\* load_bundle: CompiledPolicyBundle.model_validate(raw), for the fields
\* pregen reads
load_bundle(raw) ==
    [conditional_rules |->
        [i \in 1..Len(raw.conditional_rules) |->
            [policy_id |-> raw.conditional_rules[i].policy_id,
             metadata |-> RuleMetadata(raw.conditional_rules[i].metadata)]],
     compiled_paths |->
        [i \in 1..Len(raw.compiled_paths) |->
            [policy_id |-> raw.compiled_paths[i].policy_id,
             path |-> raw.compiled_paths[i].path,
             metadata |-> RuleMetadata(raw.compiled_paths[i].metadata)]],
     constraints |-> <<>>,
     dominance_rules |-> raw.dominance_rules,
     escalations |-> raw.escalations,
     priority_lattice |-> raw.priority_lattice]

InitCompiled ==
    /\ InitIdleLocals
    /\ query = {"refund"}
    /\ classify_answer = NoAnswer
    /\ today = 1
    /\ bundle = EnforceBundle
    /\ bundle_index = BundleIndex(EnforceBundle)
    /\ log_file = <<>>
    /\ loggers = <<None>>
    /\ tampered = FALSE
    /\ threads = <<>>
    /\ InitIdleScoring
    /\ policies \in UNION { LinkedPolicyLists(n) : n \in 1..MaxRules }
    /\ z3_unknown = {}
    /\ solve_ret = <<>>
    /\ vpc = "start"
    /\ policy_ir = <<>>
    /\ decision_graph = <<>>
    /\ conflict_report = <<>>
    /\ resolution_report = <<>>
    /\ compiled_bundle = <<>>
    /\ runs = <<>>
    /\ exit_code = <<>>

\* load_bundle on the bundle the compiler has written
LoadBundle ==
    /\ vpc = "bundled"
    /\ bundle' = load_bundle(compiled_bundle[1])
    /\ bundle_index' = BundleIndex(bundle')
    /\ vpc' = "loaded"
    /\ UNCHANGED <<policies, z3_unknown, solve_ret, policy_ir, decision_graph,
                   conflict_report, resolution_report, compiled_bundle>>
    /\ UNCHANGED <<query, classify_answer, today>>
    /\ UNCHANGED <<enfLocals, log_file, loggers, tampered, threads, scoreVars, runs, exit_code>>

NextCompiled ==
    \/ NextValidation
    \/ LoadBundle
    \/ vpc = "loaded" /\ BuildContextCall

SpecCompiled == InitCompiled /\ [][NextCompiled]_vars

\* ============================================================ properties
Returned == pc = "returned"

\* C1: every decision enforce returns whose post-gen report has
\* regex.passed = false has action escalate, whatever the scores are.
C1_RegexHardGate ==
    (Returned /\ report # <<>> /\ ~report[1].regex_result.passed)
        => decision[1].action = ESCALATE

\* a retried response that scores at least 0.95 but trips the regex gate
C1_Witness ==
    /\ Returned
    /\ report # <<>>
    /\ ~report[1].regex_result.passed
    /\ decision[1].score >= THRESHOLD_PASS
    /\ fixRetries = 1

\* C6: in one enforce run at most auto_correct_max_attempts FIX retries and
\* at most max_retries DO-NOT retries are issued.  Every pass through the
\* loop that does not leave it issues one of the two, and both together
\* never exceed the larger budget, so the loop ends.
C6_RetryBudgets ==
    /\ fixRetries <= cfg.auto_correct_max_attempts
    /\ doNotRetries <= cfg.max_retries
    /\ retries <= fixRetries + doNotRetries
    /\ fixRetries + doNotRetries
         <= (IF cfg.max_retries > cfg.auto_correct_max_attempts
             THEN cfg.max_retries ELSE cfg.auto_correct_max_attempts)

\* a run that used a FIX retry and then a DO-NOT retry up to the budget
C6_Witness ==
    /\ Returned
    /\ fixRetries = cfg.auto_correct_max_attempts
    /\ fixRetries > 0
    /\ doNotRetries > 0
    /\ fixRetries + doNotRetries = cfg.max_retries

\* C7: every decision returned after the retry loop has action pass or
\* escalate (a decision still at auto_correct / regenerate is degraded).
C7_NoRetryStateReturned ==
    Returned => decision[1].action \in {PASS, ESCALATE}

\* C8: no exception raised by a verifier leaves enforce.
C8_NoVerifierErrorEscapes ==
    raised \notin {"smt", "coverage"}

\* C9: an enforce call that got an audit logger and returned has appended
\* exactly one entry, and its final_action and compliance_score are those
\* of the returned decision; nothing is written before the call ends.
C9_OneAuditEntry ==
    /\ (Returned /\ cfg.audit_logger) =>
          /\ Len(log_file) = 1
          /\ log_file[1].final_action = JStr(ActionValue(decision[1].action))
          /\ log_file[1].compliance_score = JFloat(decision[1].score)
    /\ (~Returned \/ ~cfg.audit_logger) => Len(log_file) = 0

\* a call that exhausted its retries and was degraded to escalate
C9_Witness ==
    /\ Returned
    /\ cfg.audit_logger
    /\ Len(log_file) = 1
    /\ fixRetries + doNotRetries > 0
    /\ decision[1].action = ESCALATE
    /\ determine_action(decision[1].score, report[1]) # ESCALATE

\* C10: when pre-generation leaves no applicable rule, enforce returns pass
\* with score 1.0 and no violation, and neither the generator nor a
\* post-generation verifier was called.
C10_NoRulesPassesImmediately ==
    (Returned /\ context.applicable_rules = {}) =>
        /\ decision[1].action = PASS
        /\ decision[1].score = ScoreOne
        /\ decision[1].violations = <<>>
        /\ generatorCalls = 0
        /\ postgenCalls = 0

\* the hash chain: first prev_hash null, each later
\* prev_hash the entry_hash before it, each entry_hash the digest of
\* prev_hash-or-empty and the canonical JSON of the line's entry
ChainLinked(lines) ==
    /\ Len(lines) > 0 => lines[1].prev_hash = None
    /\ \A n \in 2..Len(lines) : lines[n].prev_hash = lines[n - 1].entry_hash

ChainHashed(lines) ==
    \A n \in 1..Len(lines) :
        /\ model_validate(lines[n]).ok
        /\ lines[n].entry_hash =
              sha256(OrEmpty(lines[n].prev_hash),
                     model_dump_json(model_validate(lines[n]).entry))

\* C2: with a single AuditLogger on a fresh file the chain is linked and
\* hashed as stated, and verify_integrity() returns true.
C2_SingleLoggerChain ==
    (Len(loggers) = 1 /\ ~tampered) =>
        /\ ChainLinked(log_file)
        /\ ChainHashed(log_file)
        /\ verify_integrity(log_file) = "True"

\* a single logger has filled the file
C2_Witness ==
    /\ Len(loggers) = 1
    /\ ~tampered
    /\ Len(log_file) = MaxLog
    /\ \E n \in 1..Len(log_file) : log_file[n].domain = JNull

\* C3: the chain holds for the file however many AuditLogger objects
\* appended to it one after another, so verify_integrity() returns true.
C3_FileChain ==
    ~tampered =>
        /\ ChainLinked(log_file)
        /\ ChainHashed(log_file)
        /\ verify_integrity(log_file) = "True"

AllIdle == \A t \in 1..NumThreads : threads[t].pc = "idle"

\* C4: concurrent log() calls on one shared log are serialised: no two
\* records carry the same prev_hash and verify_integrity() returns true
\* once the calls are over.
C4_WritersSerialised ==
    /\ \A i, j \in 1..Len(log_file) :
          i # j => log_file[i].prev_hash # log_file[j].prev_hash
    /\ AllIdle => verify_integrity(log_file) = "True"

\* C5: changing one stored field of one record of a log that verifies to a
\* different value makes verify_integrity() return false; a line that
\* model_validate rejects is counted as detected too, so the property
\* fails only where the edited log is still reported intact.
C5_TamperEvident ==
    tampered => verify_integrity(log_file) # "True"

\* C11: with the regex check passed, determine_action maps the score S to
\* pass for S >= 0.95, auto_correct for 0.85 <= S < 0.95, regenerate for
\* 0.70 <= S < 0.85 and escalate for S < 0.70; a score equal to a threshold
\* is in the higher band.
C11_ActionTable ==
    (action_ret # <<>> /\ report_arg.regex_result.passed) =>
        /\ (score_arg >= 95000) <=> (action_ret[1] = PASS)
        /\ (85000 <= score_arg /\ score_arg < 95000) <=> (action_ret[1] = AUTO_CORRECT)
        /\ (70000 <= score_arg /\ score_arg < 85000) <=> (action_ret[1] = REGENERATE)
        /\ (score_arg < 70000) <=> (action_ret[1] = ESCALATE)

\* the call with S = 0.85 exactly has answered auto_correct
C11_Witness ==
    /\ action_ret = Some(AUTO_CORRECT)
    /\ report_arg.regex_result.passed
    /\ score_arg = 85000

\* C12: when the wall-clock time of an enforce call went beyond
\* EnforcementConfig.timeout_ms, the returned decision has action escalate
\* and its violations contain pipeline_timeout.
C12_PipelineTimeout ==
    (Returned /\ duration_ms > cfg.timeout_ms) =>
        /\ decision[1].action = ESCALATE
        /\ \E i \in 1..Len(decision[1].violations) :
              decision[1].violations[i] = "pipeline_timeout"

\* the compile has produced a bundle
Bundled == vpc = "bundled"

\* entries of the resolution report about the pair of a conflict
HasAutoResolution(conf, res) ==
    \E i \in 1..Len(res.auto_resolutions) :
        res.auto_resolutions[i].policies = conf.policies
HasDominanceRule(conf, res) ==
    \E i \in 1..Len(res.auto_resolutions) :
        /\ res.auto_resolutions[i].policies = conf.policies
        /\ \E k \in 1..Len(res.conflict_free_plan.dominance_rules) :
              LET dr == res.conflict_free_plan.dominance_rules[k]
              IN /\ { dr.when.policies_fire[n] : n \in 1..Len(dr.when.policies_fire) }
                      = { conf.policies[1], conf.policies[2] }
                 /\ dr.then.enforce = res.auto_resolutions[i].winner
HasEscalation(conf, res) ==
    \E i \in 1..Len(res.escalations) : res.escalations[i].policies = conf.policies

DeclaredValues(info) ==
    CASE info.type = "bool" -> { VBool(b) : b \in BOOLEAN }
      [] info.type = "int" -> { VInt(n) : n \in 0..2 }
      [] info.type = "enum" -> { VStr(x) : x \in info.values }

Assignments(schema) ==
    { f \in [DOMAIN schema -> UNION { DeclaredValues(schema[v]) : v \in DOMAIN schema }] :
        \A v \in DOMAIN schema : f[v] \in DeclaredValues(schema[v]) }

\* some assignment passes every test of both paths
JointlySatisfiable(pa, pb, schema) ==
    \E f \in Assignments(schema) :
        /\ \A i \in 1..Len(pa.path) : \A j \in 1..Len(pa.path[i].tests) :
              test_holds(f[pa.path[i].var], pa.path[i].tests[j])
        /\ \A i \in 1..Len(pb.path) : \A j \in 1..Len(pb.path[i].tests) :
              test_holds(f[pb.path[i].var], pb.path[i].tests[j])

Reported(pa, pb, rpt) ==
    \E n \in 1..Len(rpt.logical_conflicts) :
        rpt.logical_conflicts[n].policies = <<pa.policy_id, pb.policy_id>>

\* C14: the report of detect_conflicts contains every pair of compiled
\* paths with different leaf actions whose tests some assignment of the
\* declared variables satisfies together, and no pair with equal leaf
\* actions.
C14_ConflictCompleteness ==
    conflict_report # <<>> =>
        LET paths == decision_graph[1].compiled_paths
            schema == policy_ir[1].variables
        IN \A i, j \in 1..Len(paths) :
              i < j =>
                /\ (/\ paths[i].leaf_action # paths[j].leaf_action
                    /\ JointlySatisfiable(paths[i], paths[j], schema))
                       => Reported(paths[i], paths[j], conflict_report[1])
                /\ paths[i].leaf_action = paths[j].leaf_action
                       => ~Reported(paths[i], paths[j], conflict_report[1])

\* two paths that test the same variable compatibly and lead to different
\* actions were reported
C14_Witness ==
    /\ conflict_report # <<>>
    /\ Len(conflict_report[1].logical_conflicts) = 1
    /\ LET paths == decision_graph[1].compiled_paths
       IN /\ Len(paths) >= 2
          /\ Len(paths[1].path) = 1
          /\ Len(paths[2].path) = 1
          /\ paths[1].path[1].var = paths[2].path[1].var

\* a condition that orders a bool or an enum variable
IllTyped(condition) ==
    /\ condition.operator \in {"<", "<=", ">", ">="}
    /\ _infer_variable_type(condition) \in {"bool", "enum"}

HasIllTypedTest(ps) ==
    \E k \in 1..Len(ps) : \E i \in 1..Len(ps[k].conditions) :
        IllTyped(ps[k].conditions[i])

\* C18: compiling policies that contain an ordering test on a bool or enum
\* variable fails with an error, so no bundle is produced from them.
C18_IllTypedRejected ==
    HasIllTypedTest(policies) => ~Bundled

\* ---- runtime dominance
\* the rules retrieve_rules hands to apply_dominance for a context's domain
Retrieved(ctx) == retrieve_rules(ctx.domain, bundle_index, today).rules

\* the bundle's dominance rules on the pair {p, q}
ExplicitRules(p, q) ==
    { bundle.dominance_rules[i] : i \in
        { j \in 1..Len(bundle.dominance_rules) :
            { bundle.dominance_rules[j].when.policies_fire[n] : n \in 1..2 } = {p, q} } }

LatticeRank(p) ==
    bundle.priority_lattice[
        bundle.conditional_rules[
            CHOOSE i \in 1..Len(bundle.conditional_rules) :
                bundle.conditional_rules[i].policy_id = p].metadata.priority]

\* p is the loser of the pair {p, q}: the side an explicit override rule does
\* not enforce, or without an explicit rule the side of lower priority
LoserOf(p, q) ==
    \/ \E dr \in ExplicitRules(p, q) : dr.then.mode = "override" /\ dr.then.enforce = q
    \/ ExplicitRules(p, q) = {} /\ LatticeRank(p) > LatticeRank(q)

\* C15: after apply_dominance a retrieved rule is dropped exactly when it is
\* the loser of some pair of retrieved rules; the two sides of a compose rule
\* are not dropped on account of that rule; the applicable paths are the
\* retrieved paths of the applicable rules
C15_RuntimeDominance ==
    \A r \in 1..Len(runs) :
        LET ctx == runs[r]
            retrieved == Retrieved(ctx)
        IN /\ ctx.applicable_rules \subseteq retrieved
           /\ \A p \in retrieved :
                (p \notin ctx.applicable_rules) <=>
                    (\E q \in retrieved \ {p} : LoserOf(p, q))
           /\ \A p \in retrieved : \A q \in retrieved \ {p} :
                (/\ \E dr \in ExplicitRules(p, q) : dr.then.mode = "compose"
                 /\ \A o \in retrieved \ {p, q} : ~LoserOf(p, o) /\ ~LoserOf(q, o))
                => {p, q} \subseteq ctx.applicable_rules
           /\ ctx.applicable_paths \subseteq ctx.applicable_rules
           /\ ctx.applicable_paths =
                retrieve_rules(ctx.domain, bundle_index, today).paths
                    \cap ctx.applicable_rules

\* a call that retrieved three rules: one dropped under an explicit override
\* rule, one dropped by the lattice, one kept
C15_Witness ==
    /\ Len(runs) >= 1
    /\ Cardinality(Retrieved(runs[1])) = 3
    /\ Cardinality(runs[1].applicable_rules) = 1
    /\ \E p \in Retrieved(runs[1]) \ runs[1].applicable_rules :
         \E q \in Retrieved(runs[1]) \ {p} :
            \E dr \in ExplicitRules(p, q) : dr.then.mode = "override" /\ dr.then.enforce = q
    /\ \E p \in Retrieved(runs[1]) \ runs[1].applicable_rules :
         \A q \in Retrieved(runs[1]) \ {p} : ExplicitRules(p, q) = {}

\* ---- the loaded bundle is read-only
\* C17: an enforce call, on every path and for every query, leaves the
\* CompiledPolicyBundle and every BundleIndex map as BundleIndex.__init__
\* built them; no map gets a key for the domain of the query
C17_BundleReadOnly ==
    /\ bundle = EnforceBundle
    /\ bundle_index = BundleIndex(bundle)
    /\ context.domain \notin {"unknown", "refund"} =>
          /\ context.domain \notin DOMAIN bundle_index.rules_by_domain
          /\ context.domain \notin DOMAIN bundle_index.paths_by_domain
          /\ context.domain \notin DOMAIN bundle_index.constraints_by_scope

\* a call for a query whose domain has no entry in the indexes returned
\* after a retry
C17_Witness ==
    /\ Returned
    /\ context.domain = "security"
    /\ fixRetries + doNotRetries > 0
    /\ decision[1].action = ESCALATE

\* ---- determinism of enforcement
\* the decision of the first pass of enforce for a context, on a response
\* that mentions the decision nodes `mentioned` and on fixed verifier
\* answers: the regex check passes, no fact is extracted, the judge scores 1.0
FirstDecision(ctx, mentioned) ==
    LET nodes == nodes_required(ctx.applicable_paths, bundle_index)
        in == [regex |-> "pass",
               smt |-> [raises |-> FALSE, hasFacts |-> FALSE, breach |-> FALSE,
                        pathSatisfied |-> FALSE],
               covered |-> Cardinality(nodes \cap mentioned),
               covRaises |-> FALSE,
               judge |-> [raises |-> FALSE, score |-> One, issues |-> <<>>]]
        d == build_compliance_decision(run_postgen(in, ctx, cfg).report[1], 1)
    IN [score |-> d.score, action |-> d.action, violations |-> d.violations]

\* C19: two runs on the same query, the same bundle, the same generator
\* output and the same verifier and LLM answers classify the query into the
\* same domain and come to the same score, action and violations list
C19_Deterministic ==
    Len(runs) >= 2 =>
        /\ runs[1].domain = runs[2].domain
        /\ \A mentioned \in SUBSET (1..MaxRules) :
              FirstDecision(runs[1], mentioned) = FirstDecision(runs[2], mentioned)

\* ---- exit status of the enforce command
\* C20: the command exits with status 0 when the final action is pass or
\* auto_correct and with a non-zero status when it is regenerate or escalate
C20_ExitStatus ==
    (Returned /\ exit_code # <<>>) =>
        /\ decision[1].action \in {PASS, AUTO_CORRECT} => exit_code[1] = 0
        /\ decision[1].action \in {REGENERATE, ESCALATE} => exit_code[1] # 0

\* ---- prompts of the retries
\* C16: every prompt sent for a retry has the system part of the original
\* prompt and the user part of the original prompt followed by one hint
\* block; hints of earlier retries are not in it; the injection bundle and
\* the original prompt stay what build_injection_bundle and
\* format_full_prompt returned
C16_RetriesAppendHint ==
    /\ prompt # <<>> =>
          /\ injection = Some(build_injection_bundle(context, bundle, bundle_index))
          /\ prompt = Some(format_full_prompt(query, injection[1]))
          /\ prompt[1].user.tail = <<>>
    /\ sent # <<>> =>
          /\ sent[1].system = prompt[1].system
          /\ sent[1].user.head = prompt[1].user.head
          /\ IF fixRetries + doNotRetries = 0
             THEN sent = prompt
             ELSE /\ Len(sent[1].user.tail) = 1
                  /\ sent[1].user.tail[1].kind \in {"FIX", "DO NOT"}
                  /\ Len(sent[1].user.tail[1].hints) <= 5

\* the second retry of a call has been sent
C16_Witness ==
    /\ fixRetries + doNotRetries >= 2
    /\ sent # <<>>
    /\ Len(sent[1].user.tail) = 1
    /\ sent[1].user.tail[1].hints # <<>>

\* ---- the two retry budgets
\* C21: the budgets are counted separately: a decision at regenerate is
\* escalated for exhaustion only after max_retries DO-NOT retries were issued
\* in the call, a decision at auto_correct only after
\* auto_correct_max_attempts FIX retries were issued
C21_SeparateBudgets ==
    [][Exhausted =>
          /\ decision[1].action = REGENERATE => doNotRetries >= cfg.max_retries
          /\ decision[1].action = AUTO_CORRECT =>
                fixRetries >= cfg.auto_correct_max_attempts]_vars

\* ---- the accepted FIX retry
\* a FIX retry whose text was generated and evaluated
FixRetryEvaluated ==
    /\ AutoCorrectRetry
    /\ postgenCalls' = postgenCalls + 1
    /\ pc' \in {"finish", "routing"}

\* C22: when the FIX retry scores at least 0.95 enforce leaves the loop and
\* the decision has corrected_response equal to the retried text while
\* llm_response is still the first generated response; when it scores less,
\* no corrected_response is recorded
C22_AcceptedAutoCorrect ==
    [][FixRetryEvaluated =>
          IF decision'[1].score >= THRESHOLD_PASS
          THEN /\ pc' = "finish"
               /\ decision'[1].corrected_response = Some(generatorCalls')
               /\ decision'[1].llm_response = response
          ELSE /\ pc' = "routing"
               /\ decision'[1].corrected_response = <<>>]_vars

\* ---- the SMT score table
\* the violation types of an SMT result
Recorded(smt, type) == \E i \in 1..Len(smt.violations) : smt.violations[i] = type

\* run_smt_check answers 0.8 exactly when no fact was extracted
WithFacts(smt) == smt.score # (8 * One) \div 10

\* C23: on a non-empty fact set the SMT score is 0 whenever a constraint
\* breach is recorded (with or without uncovered_case), 0.5 when the only
\* violation is uncovered_case, and 1.0 when there is no violation
C23_SMTScoreTable ==
    (report # <<>> /\ cfg.smt_enabled /\ WithFacts(report[1].smt_result)) =>
        LET smt == report[1].smt_result
        IN /\ Recorded(smt, "constraint_breach") => smt.score = 0
           /\ (Recorded(smt, "uncovered_case") /\ ~Recorded(smt, "constraint_breach"))
                 => smt.score = One \div 2
           /\ smt.violations = <<>> => smt.score = One

\* ---- regulatory promotion at run time
\* the metadata of rule p in the bundle
MetaOf(p) ==
    bundle.conditional_rules[
        CHOOSE i \in 1..Len(bundle.conditional_rules) :
            bundle.conditional_rules[i].policy_id = p].metadata

\* p loses the pair {p, q} under the ranking of resolve_conflicts
RankedBelow(p, q) == ExplicitRules(p, q) = {} /\ _rank(MetaOf(p)) > _rank(MetaOf(q))

\* C24: in the lattice fallback of apply_dominance a rule with a regulatory
\* linkage ranks as regulatory whatever its priority field: a retrieved rule
\* is dropped only on account of an explicit override rule or of a rule that
\* resolve_conflicts ranks above it, so a linked rule is never dropped in
\* favour of an unlinked rule of non-regulatory priority, and a pair without
\* an explicit rule is ranked as resolve_conflicts ranks it
C24_RuntimeRegulatoryPromotion ==
    \A r \in 1..Len(runs) :
        LET ctx == runs[r]
            retrieved == Retrieved(ctx)
        IN \A p \in retrieved :
             /\ (p \notin ctx.applicable_rules) <=>
                   \E q \in retrieved \ {p} :
                      \/ \E dr \in ExplicitRules(p, q) :
                            dr.then.mode = "override" /\ dr.then.enforce = q
                      \/ RankedBelow(p, q)
             /\ (MetaOf(p).regulatory_linkage # <<>> /\ p \notin ctx.applicable_rules) =>
                   \E q \in retrieved \ {p} :
                      \/ ExplicitRules(p, q) # {}
                      \/ MetaOf(q).regulatory_linkage # <<>>
                      \/ MetaOf(q).priority = "regulatory"

\* ---- a solver that gives up
\* the bundle's escalations name the pair of paths i and j
Escalated(i, j) ==
    LET paths == decision_graph[1].compiled_paths
    IN \E k \in 1..Len(compiled_bundle[1].escalations) :
          { compiled_bundle[1].escalations[k].policies[n] : n \in 1..2 }
              = { paths[i].policy_id, paths[j].policy_id }

\* C25: a pair of paths with distinct leaf actions on which the solver
\* answered unknown is not read as free of conflict: it appears in the
\* escalations of the compiled bundle
C25_UnknownIsEscalated ==
    Bundled =>
        LET paths == decision_graph[1].compiled_paths
        IN \A pq \in z3_unknown :
              (/\ pq[2] <= Len(paths)
               /\ paths[pq[1]].leaf_action # paths[pq[2]].leaf_action)
                  => Escalated(pq[1], pq[2])

\* ---- the witness of a conflict
\* every test of a path holds under the assignment w
PathHolds(path, w) ==
    \A i \in 1..Len(path) : \A j \in 1..Len(path[i].tests) :
        test_holds(w[path[i].var], path[i].tests[j])

\* C26: the witness solve_paths returns for a conflict gives every declared
\* variable a value of its declared type, an enum variable one of the values
\* of its closed list, and every test of both paths holds under it
C26_WitnessValid ==
    (solve_ret # <<>> /\ solve_ret[1].witness # <<>>) =>
        LET ret == solve_ret[1]
            w == ret.witness[1]
        IN /\ DOMAIN w = DOMAIN ret.schema
           /\ \A v \in DOMAIN ret.schema : w[v] \in DeclaredValues(ret.schema[v])
           /\ PathHolds(ret.path_a, w)
           /\ PathHolds(ret.path_b, w)

\* ---- dominance on a compiled bundle
\* C27: on a bundle the compiler produced, whenever retrieve_rules returns
\* at least one rule for the domain of a build_context call, at least one
\* rule is applicable after apply_dominance
C27_DominanceKeepsARule ==
    \A r \in 1..Len(runs) :
        Retrieved(runs[r]) # {} => runs[r].applicable_rules # {}

\* ---- corrected responses
\* C28: in every decision enforce returns, corrected_response is set only
\* if the action is pass
C28_CorrectedOnlyOnPass ==
    (Returned /\ decision[1].corrected_response # <<>>) => decision[1].action = PASS

\* ---- judge outage
\* the judge check is enabled and the judge client fails on every call
JudgeOutage == cfg.judge_enabled /\ cfg.judge_down

\* a retry generation failed (the loop was left without an evaluation)
RetryGenerationFailed == generatorCalls # postgenCalls

\* C29: under a judge outage every evaluation of a request that is not
\* short-circuited has judge score 0.5, the weighted score stays below 0.95,
\* no retry is accepted, and a call that returns after generations that did
\* not fail returns action escalate, never pass
C29_JudgeOutageEscalates ==
    JudgeOutage =>
        /\ report # <<>> =>
              /\ report[1].judge_result.score = One \div 2
              /\ decision[1].score < THRESHOLD_PASS
              /\ decision[1].corrected_response = <<>>
        /\ (Returned /\ generatorCalls > 0 /\ ~RetryGenerationFailed) =>
              decision[1].action = ESCALATE

\* a call under a judge outage that returned after a FIX retry and a DO-NOT
\* retry
C29_Witness ==
    /\ JudgeOutage
    /\ Returned
    /\ fixRetries >= 1
    /\ doNotRetries >= 1
    /\ ~RetryGenerationFailed
    /\ decision[1].action = ESCALATE

\* ---- truncation of the log
\* the first n lines of the file
Prefix(lines, n) == SubSeq(lines, 1, n)

\* C30: verify_integrity answers True on every prefix of a file on which it
\* answers True, the empty file included: removing trailing records from a
\* valid log is not detected
C30_TruncationUndetected ==
    verify_integrity(log_file) = "True" =>
        \A n \in 0..Len(log_file) : verify_integrity(Prefix(log_file, n)) = "True"

\* a valid log of several records, whose proper prefixes are shorter logs
C30_Witness ==
    /\ Len(log_file) >= 2
    /\ verify_integrity(log_file) = "True"
    /\ verify_integrity(Prefix(log_file, 1)) = "True"

====
